---- MODULE Spec2Model ----
(***************************************************************************)
(* Consent orchestration and token lifecycle of the Open Finance starter   *)
(* kit: the Consent Store (Supabase table keyed by consent_id), callback   *)
(* reconciliation (recordConsentCallback and the two HTTP handlers that    *)
(* call it) and the token lifecycle inside fetchDashboardData.             *)
(*                                                                         *)
(* Values.  JavaScript strings are TLA+ strings; `undefined` and `null`    *)
(* are the reserved strings Undef and Null, and "" is the empty string     *)
(* (falsy, like undefined and null).  Timestamps are records: IsoTime(n)   *)
(* is the ISO-8601 text of the instant n milliseconds after the epoch of   *)
(* the model, NullTime is null/undefined, BadTime is a non-empty string    *)
(* that Date.parse cannot read.                                            *)
(***************************************************************************)
EXTENDS Integers, Sequences, FiniteSets, TLC

\* ---------------------------------------------------------------- bounds
MaxTicks == 1
MaxCallbacks == 2
MaxCreations == 1
MaxInvocations == 2
MaxRepeats == 2
MaxAmountLen == 4
MaxPermissions == 2
MaxIdLen == 3
MaxAssertions == 2
MaxAdds == 52
MaxSessions == 3
MaxPosts == 2
MaxExchanges == 2
MaxPolls == 2
MaxTarget == 5
MaxAdvances == 5
MaxSignals == 3
MaxConnections == 3

\* ------------------------------------------------------- JavaScript values
Undef == "undefined"
Null == "null"

Truthy(v) == v \notin {Undef, Null, ""}

\* a ?? b
Coalesce(a, b) == IF a \in {Undef, Null} THEN b ELSE a

\* a || b
OrElse(a, b) == IF Truthy(a) THEN a ELSE b

IsoTime(n) == [k |-> "iso", ms |-> n]
NullTime == [k |-> "null", ms |-> 0]
BadTime == [k |-> "bad", ms |-> 0]

\* token_cache as stored inside metadata; present = FALSE when the key is
\* missing from the metadata object
NoTokenCache ==
  [present |-> FALSE, access_token |-> Undef, refresh_token |-> Undef,
   expires_at |-> NullTime, obtained_at |-> NullTime]

TokenCache(at, rt, exp, obt) ==
  [present |-> TRUE, access_token |-> at, refresh_token |-> rt,
   expires_at |-> exp, obtained_at |-> obt]

\* metadata column: kind "null" (SQL null), "undefined" (argument not given)
\* or "obj", an object with the optional keys base_url and token_cache
NullMeta == [kind |-> "null", base_url |-> Undef, token_cache |-> NoTokenCache]
UndefMeta == [kind |-> "undefined", base_url |-> Undef, token_cache |-> NoTokenCache]
ObjMeta(b, tc) == [kind |-> "obj", base_url |-> b, token_cache |-> tc]

MetaKeys(m) ==
  IF m.kind # "obj" THEN {}
  ELSE (IF m.base_url # Undef THEN {"base_url"} ELSE {})
       \cup (IF m.token_cache.present THEN {"token_cache"} ELSE {})

\* decoded state payload: ok = FALSE when decodeBase64Json returned null
NoPayload ==
  [ok |-> FALSE, consent_id |-> Undef, consentId |-> Undef,
   ConsentId |-> Undef, code_verifier |-> Undef]

Payload(a, b, c, v) ==
  [ok |-> TRUE, consent_id |-> a, consentId |-> b, ConsentId |-> c,
   code_verifier |-> v]

\* the redirect query: the five parameters the handlers read; Undef = the
\* parameter is not in the URL.  NoQuery is SQL null.
NoQuery ==
  [isNull |-> TRUE, code |-> Undef, state |-> "absent", iss |-> Undef,
   error |-> Undef, error_description |-> Undef]

Query(code, stateKind, iss, err, desc) ==
  [isNull |-> FALSE, code |-> code, state |-> stateKind, iss |-> iss,
   error |-> err, error_description |-> desc]

NoCallbackError == [isNull |-> TRUE, error |-> Undef, error_description |-> Undef]

\* --------------------------------------------------------------- domains
ConsentIds == {"c1", "c2"}
Procs == {"p1"}

VerifierOf(c) == IF c = "c1" THEN "v1" ELSE "v2"

Codes == {Undef, "", "abc123"}
Errors == {Undef, "", "access_denied"}
Issuers == {Undef, "https://as"}
ErrorDescriptions == {Undef, "denied"}

AccessTokens == {"at1", "at2"}
RefreshTokens == {"rt1"}
ExpiresInSeconds == {0, 60, 90}

\* the state query parameter as it arrives: kind "absent" (no parameter),
\* "empty" (state=), "garbage" (text whose base64 decoding is not JSON) or
\* "json" (base64 of the JSON text of `payload`)
StateAbsent == [kind |-> "absent", payload |-> NoPayload]
StateEmpty == [kind |-> "empty", payload |-> NoPayload]
StateGarbage == [kind |-> "garbage", payload |-> NoPayload]
StateJson(p) == [kind |-> "json", payload |-> p]

\* the state a consent-creation handler builds for consent c
StateOf(c) == StateJson(Payload(c, Undef, Undef, VerifierOf(c)))

StateParams ==
  {StateAbsent, StateEmpty, StateGarbage,
   StateJson(Payload(Undef, Undef, Undef, "v1"))}
  \cup {StateOf(c) : c \in ConsentIds}
  \cup {StateJson(Payload(Undef, "c1", Undef, Undef)),
        StateJson(Payload(Undef, Undef, "c2", Undef))}

CallbackQueries ==
  [code : Codes, state : StateParams, iss : Issuers, error : Errors,
   error_description : ErrorDescriptions]

\* the redirects an authorization server sends for consent c1 after the
\* end user was sent to authorize it: the state built for c1, with a code
\* or without one
AuthorizedCallbacks ==
  {q \in CallbackQueries :
     /\ q.state = StateOf("c1")
     /\ q.code # ""
     /\ q.iss = Undef /\ q.error = Undef /\ q.error_description = Undef}

\* the redirect queries the Consent Store is examined under.  For the
\* state of c1: every combination of code and error; an issuer with each
\* code; an error description with and without an error.  For every other
\* kind of state: with and without a code.
AllCallbacks ==
  {q \in CallbackQueries :
     \/ /\ q.state = StateOf("c1")
        /\ \/ q.iss = Undef /\ q.error_description = Undef
           \/ q.iss # Undef /\ q.error = Undef /\ q.error_description = Undef
           \/ /\ q.error_description # Undef
              /\ q.code = Undef /\ q.iss = Undef /\ q.error # ""
     \/ /\ q.code # ""
        /\ q.iss = Undef /\ q.error = Undef /\ q.error_description = Undef}

\* ------------------------------------------------------------- the table
StringFields ==
  {"consent_type", "redirect_url", "code_verifier", "bank_label", "status",
   "source", "auth_code", "issuer"}

Fields ==
  StringFields \cup
  {"metadata", "state_payload", "callback_query", "callback_error",
   "callback_received_at", "updated_at"}

\* a row as the table creates it when an insert names no other column
DefaultRow ==
  [consent_type |-> Null, redirect_url |-> Null, code_verifier |-> Null,
   bank_label |-> Null, status |-> Null, source |-> Null, auth_code |-> Null,
   issuer |-> Null, metadata |-> NullMeta, state_payload |-> NoPayload,
   callback_query |-> NoQuery, callback_error |-> NoCallbackError,
   callback_received_at |-> NullTime, updated_at |-> NullTime]

VARIABLES
  store,        \* consent_id -> row, for the rows that exist
  enabled,      \* isConsentStoreEnabled: Boolean(supabase)
  now,          \* Date.now()
  resp,         \* what the last callback handler answered
  pc,           \* fetchDashboardData: where each invocation stands
  loc,          \* fetchDashboardData: the invocation's local variables
  log,          \* what the invocation has done so far (history)
  last,         \* the most recent operation that addressed the table
  nCallbacks,
  nCreations,
  nInvocations,
  h,            \* the consent-creation request being served, if any
  ca,           \* client assertions: issued so far, and carried by requests
  records,      \* authCodeStore: the module's array of records
  debug,        \* the debug router: calls of addAuthCodeRecord, last reply
  sessions,     \* MCP server: the keys of the sessions map
  sse,          \* MCP server: each transport's life, the last POST's answer
  wz,           \* DataSharingWizard: its state, effects and requests
  sd            \* starter kit process: its server and its shutdown

\* the consent flows' variables
flows ==
  <<store, enabled, now, resp, pc, loc, log, last, nCallbacks, nCreations,
    nInvocations, h, ca>>

\* the variables of the other components
debugVars == <<records, debug>>
mcpVars == <<sessions, sse>>
others == <<debugVars, mcpVars, wz, sd>>
notDebug == <<flows, mcpVars, wz, sd>>
notMcp == <<flows, debugVars, wz, sd>>
notWizard == <<flows, debugVars, mcpVars, sd>>
notShutdown == <<flows, debugVars, mcpVars, wz>>

vars ==
  <<store, enabled, now, resp, pc, loc, log, last, nCallbacks, nCreations,
    nInvocations, h, ca, records, debug, sessions, sse, wz, sd>>

\* dropUndefined / compact
dropUndefined(record) ==
  [f \in {g \in DOMAIN record :
            ~(g \in StringFields /\ record[g] = Undef)} |-> record[f]]

\* variant: an upsert that leaves an existing row as it is
Upsert_insertOnly(s, id, payload) ==
  IF id \in DOMAIN s THEN s
  ELSE [c \in (DOMAIN s) \cup {id} |->
          IF c = id
            THEN [f \in Fields |->
                    IF f \in DOMAIN payload THEN payload[f]
                    ELSE DefaultRow[f]]
            ELSE s[c]]

\* variant: a plain insert, which adds a second row when the consent_id
\* already has one
Upsert_insert(s, id, payload) ==
  LET key == IF id \in DOMAIN s THEN id \o "+" ELSE id
      row == [f \in Fields |->
                IF f \in DOMAIN payload THEN payload[f] ELSE DefaultRow[f]]
  IN [c \in (DOMAIN s) \cup {key} |-> IF c = key THEN row ELSE s[c]]

\* supabase.from(table).upsert(payload, {onConflict: "consent_id"})
Upsert(s, id, payload) ==
  LET old == IF id \in DOMAIN s THEN s[id] ELSE DefaultRow
      row == [f \in Fields |->
                IF f \in DOMAIN payload THEN payload[f] ELSE old[f]]
  IN [c \in (DOMAIN s) \cup {id} |-> IF c = id THEN row ELSE s[c]]

\* variant: the update replaces the row, the columns it does not name
\* going back to their defaults
Update_replace(s, id, payload) ==
  [c \in DOMAIN s |->
     IF c = id
       THEN [f \in Fields |->
               IF f \in DOMAIN payload THEN payload[f] ELSE DefaultRow[f]]
       ELSE s[c]]

\* supabase.from(table).update(payload).eq("consent_id", id)
Update(s, id, payload) ==
  [c \in DOMAIN s |->
     IF c = id
       THEN [f \in Fields |->
               IF f \in DOMAIN payload THEN payload[f] ELSE s[c][f]]
       ELSE s[c]]

\* safeJson applied to a metadata argument
safeJson(m) ==
  IF m.kind # "obj" \/ MetaKeys(m) = {} THEN NullMeta ELSE m

\* the payload withSupabase builds: dropUndefined({...record, updated_at})
payloadOf(record) ==
  dropUndefined([f \in DOMAIN record \cup {"updated_at"} |->
                   IF f = "updated_at" THEN IsoTime(now) ELSE record[f]])

\* variant: the error the upsert answers with is not looked at
withSupabase_errorIgnored(s, id, record, fails) ==
  IF ~enabled THEN [ok |-> FALSE, store |-> s]
  ELSE [ok |-> TRUE,
        store |-> IF fails THEN s ELSE Upsert(s, id, payloadOf(record))]

\* withSupabase(record, context) for record = {consent_id: id, ...record}:
\* [ok, store].  `fails` is the table answering the upsert with an error.
withSupabase(s, id, record, fails) ==
  IF ~enabled \/ fails THEN [ok |-> FALSE, store |-> s]
  ELSE [ok |-> TRUE, store |-> Upsert(s, id, payloadOf(record))]

\* recordConsentCreation({consentId, consentType, redirectUrl, codeVerifier,
\* bankLabel, metadata, status})
creationRecord(a) ==
  [consent_type |-> a.consentType,
   redirect_url |-> a.redirectUrl,
   code_verifier |-> a.codeVerifier,
   bank_label |-> a.bankLabel,
   metadata |-> safeJson(a.metadata),
   status |-> Coalesce(a.status, "redirect_ready"),
   source |-> "starter-kit"]

recordConsentCreation(s, a, fails) ==
  IF ~Truthy(a.consentId) THEN [ok |-> FALSE, store |-> s]
  ELSE withSupabase(s, a.consentId, creationRecord(a), fails)

\* recordConsentCreationFromMcp(event)
mcpPayload(e) ==
  dropUndefined([consent_type |-> e.consentType,
                 redirect_url |-> e.redirectUrl,
                 code_verifier |-> e.codeVerifier,
                 metadata |-> safeJson(e.metadata),
                 status |-> e.status,
                 source |-> "mcp-server",
                 updated_at |-> IsoTime(now)])

recordConsentCreationFromMcp(s, e, fails) ==
  IF ~enabled \/ ~Truthy(e.consentId) \/ fails THEN [ok |-> FALSE, store |-> s]
  ELSE [ok |-> TRUE, store |-> Upsert(s, e.consentId, mcpPayload(e))]

\* decodeBase64Json(value): the typeof/length test, then JSON.parse of the
\* decoded text; a parse error is caught and gives null
decodeBase64Json(value) ==
  IF value.kind \in {"absent", "empty"} THEN NoPayload
  ELSE IF value.kind = "garbage" THEN NoPayload
  ELSE value.payload

\* statePayload?.consent_id || statePayload?.consentId || statePayload?.ConsentId
consentIdOf(statePayload) ==
  IF ~statePayload.ok THEN Undef
  ELSE OrElse(statePayload.consent_id,
              OrElse(statePayload.consentId, statePayload.ConsentId))

\* variant: the callback is written whatever the state carries
missingConsentId_never(consentId) == FALSE

\* if (!consentId) { ...; return false; }
missingConsentId(consentId) == ~Truthy(consentId)

\* variant: the code is looked at before the error
callbackStatus_codeFirst(code, error) ==
  IF Truthy(code) THEN "authorization_code_received"
  ELSE IF Truthy(error) THEN "callback_error"
  ELSE "callback_received"

callbackStatus(code, error) ==
  IF Truthy(error) THEN "callback_error"
  ELSE IF Truthy(code) THEN "authorization_code_received"
  ELSE "callback_received"

\* recordConsentCallback({code, state, issuer, error, errorDescription, query})
\* variant: the callback record names code_verifier the way it names
\* auth_code and issuer
callbackRecord_clearsVerifier(a) ==
  [auth_code |-> Coalesce(a.code, Null),
   issuer |-> Coalesce(a.issuer, Null),
   code_verifier |-> Null,
   state_payload |-> decodeBase64Json(a.state),
   callback_query |-> a.query,
   callback_error |->
     IF Truthy(a.error) \/ Truthy(a.errorDescription)
       THEN [isNull |-> FALSE, error |-> a.error,
             error_description |-> a.errorDescription]
       ELSE NoCallbackError,
   callback_received_at |-> IsoTime(now),
   status |-> callbackStatus(a.code, a.error)]

callbackRecord(a) ==
  [auth_code |-> Coalesce(a.code, Null),
   issuer |-> Coalesce(a.issuer, Null),
   state_payload |-> decodeBase64Json(a.state),
   callback_query |-> a.query,
   callback_error |->
     IF Truthy(a.error) \/ Truthy(a.errorDescription)
       THEN [isNull |-> FALSE, error |-> a.error,
             error_description |-> a.errorDescription]
       ELSE NoCallbackError,
   callback_received_at |-> IsoTime(now),
   status |-> callbackStatus(a.code, a.error)]

recordConsentCallback(s, a, fails) ==
  LET statePayload == decodeBase64Json(a.state)
      consentId == consentIdOf(statePayload)
  IN IF missingConsentId(consentId) THEN [ok |-> FALSE, store |-> s]
     ELSE withSupabase(s, consentId, callbackRecord(a), fails)

\* ------------------------------------------------- token lifecycle manager
SafetyWindowMs == 60000

\* the clock advances in steps of half the safety window
TickMs == SafetyWindowMs \div 2

NoExpiresIn == [given |-> FALSE, seconds |-> 0]
ExpiresIn(n) == [given |-> TRUE, seconds |-> n]

\* a token-endpoint response body; every field may be missing
TokenResponses ==
  [access_token : {Undef} \cup AccessTokens,
   refresh_token : {Undef} \cup RefreshTokens,
   expires_in : {NoExpiresIn} \cup {ExpiresIn(n) : n \in ExpiresInSeconds}]

coerceMetadata(metadata) ==
  IF metadata.kind # "obj" THEN ObjMeta(Undef, NoTokenCache) ELSE metadata

\* null is NoTokenCache
coerceTokenCache(metadata) == metadata.token_cache

\* Date.parse followed by Number.isFinite
ParsesToFinite(t) == t.k = "iso"

\* variant: the window test written with < (a token exactly 60 s from
\* expiry counts as usable)
usableAccessToken_strict(cache, clock) ==
  IF ~cache.present THEN Null
  ELSE IF ~Truthy(cache.access_token) \/ cache.expires_at.k = "null" THEN Null
  ELSE IF ~ParsesToFinite(cache.expires_at) THEN Null
  ELSE IF cache.expires_at.ms - SafetyWindowMs < clock THEN Null
  ELSE cache.access_token

\* variant: the window test inverted
usableAccessToken_inverted(cache, clock) ==
  IF ~cache.present THEN Null
  ELSE IF ~Truthy(cache.access_token) \/ cache.expires_at.k = "null" THEN Null
  ELSE IF ~ParsesToFinite(cache.expires_at) THEN Null
  ELSE IF cache.expires_at.ms - SafetyWindowMs >= clock THEN Null
  ELSE cache.access_token

usableAccessToken(cache, clock) ==
  IF ~cache.present THEN Null
  ELSE IF ~Truthy(cache.access_token) \/ cache.expires_at.k = "null" THEN Null
  ELSE IF ~ParsesToFinite(cache.expires_at) THEN Null
  ELSE IF cache.expires_at.ms - SafetyWindowMs <= clock THEN Null
  ELSE cache.access_token

\* variant: expires_in added to the clock without the conversion to ms
computeExpiryTimestamp_seconds(expiresIn, clock) ==
  IF ~expiresIn.given \/ expiresIn.seconds <= 0 THEN NullTime
  ELSE IsoTime(clock + expiresIn.seconds)

computeExpiryTimestamp(expiresIn, clock) ==
  IF ~expiresIn.given \/ expiresIn.seconds <= 0 THEN NullTime
  ELSE IsoTime(clock + expiresIn.seconds * 1000)

\* a is before b in ORDER BY col DESC NULLS LAST
TimeAfter(a, b) ==
  \/ a.k = "iso" /\ b.k # "iso"
  \/ a.k = "iso" /\ b.k = "iso" /\ a.ms > b.ms

RowBefore(a, b) ==
  \/ TimeAfter(a.callback_received_at, b.callback_received_at)
  \/ /\ ~TimeAfter(b.callback_received_at, a.callback_received_at)
     /\ TimeAfter(a.updated_at, b.updated_at)

\* variant: the query without .not("auth_code", "is", null)
fetchLatestAuthorizedConsent_anyRow(s) ==
  {c \in DOMAIN s : \A d \in DOMAIN s : ~RowBefore(s[d], s[c])}

\* fetchLatestAuthorizedConsent: the ids the query may answer with (rows
\* that tie on both sort keys come in an order the table chooses)
fetchLatestAuthorizedConsent(s) ==
  LET auth == {c \in DOMAIN s : s[c].auth_code # Null}
  IN {c \in auth : \A d \in auth : ~RowBefore(s[d], s[c])}

NoConsent == [consent_id |-> Null, row |-> DefaultRow]

IdleLoc ==
  [consent |-> NoConsent, metadata |-> NullMeta, accessToken |-> Null,
   refreshToken |-> Null, next |-> NullMeta]

EmptyLog ==
  [outcome |-> "none", checkedAt |-> 0, tokenCalls |-> <<>>,
   issued |-> {}, resourceTokens |-> {}, writes |-> <<>>]

\* what the table received: the columns the payload named and their values
\* (the other columns shown with their defaults)
NoSent == [cols |-> {}, vals |-> DefaultRow]

Sent(payload) ==
  [cols |-> DOMAIN payload,
   vals |-> [f \in Fields |->
               IF f \in DOMAIN payload THEN payload[f] ELSE DefaultRow[f]]]

\* two payloads name the same columns with the same values, updated_at
\* (which withSupabase stamps on every payload) left aside
SameRecord(a, b) ==
  /\ a.cols = b.cols
  /\ \A f \in a.cols \ {"updated_at"} : a.vals[f] = b.vals[f]

\* op: the operation; id: the consent_id it addressed; by: the invocation
\* of fetchDashboardData that made it; up: the table was configured and
\* answered without an error; ok: what the operation returned; given: the
\* columns whose value the caller passed; sent: what the table received
\* (NoSent unless up); repeat: the table received, for the same
\* consent_id, the record it had received from the operation before
NoLast ==
  [op |-> "none", id |-> Null, by |-> "none", up |-> FALSE, ok |-> FALSE,
   given |-> {}, sent |-> NoSent, repeat |-> FALSE]

NoArgs ==
  [code |-> Undef, state |-> StateAbsent, issuer |-> Undef, error |-> Undef,
   errorDescription |-> Undef, query |-> NoQuery]

NoResp ==
  [handler |-> "none", handled |-> FALSE, httpStatus |-> 0,
   persisted |-> FALSE, returned |-> FALSE, args |-> NoArgs]

\* the entry of `last` for operation e, coming after the one in `last`
Logged(e) ==
  [op |-> e.op, id |-> e.id, by |-> e.by, up |-> e.up, ok |-> e.ok,
   given |-> e.given, sent |-> e.sent,
   repeat |-> /\ e.up /\ e.ok /\ last.up /\ last.ok
              /\ e.id = last.id
              /\ SameRecord(e.sent, last.sent)]

\* ------------------------------------------- consent-creation handlers
\* a request-body member that should be a string: its type and, for a
\* string, its characters
StringValue(chars) == [type |-> "string", chars |-> chars]
NumberValue == [type |-> "number", chars |-> <<>>]
UndefinedValue == [type |-> "undefined", chars |-> <<>>]

DigitChars == {"0", "1", "2", "3", "4", "5", "6", "7", "8", "9"}

DigitValue(ch) ==
  CASE ch = "0" -> 0 [] ch = "1" -> 1 [] ch = "2" -> 2 [] ch = "3" -> 3
    [] ch = "4" -> 4 [] ch = "5" -> 5 [] ch = "6" -> 6 [] ch = "7" -> 7
    [] ch = "8" -> 8 [] ch = "9" -> 9

\* value.trim() === ''
trimIsEmpty(chars) == \A i \in 1..Len(chars) : chars[i] = " "

\* /^(?:0|[1-9]\d*)(\.\d{2})$/.test(value): `ends` are the positions where
\* (?:0|[1-9]\d*) can stop after starting at the first character; the
\* rest must be a dot and two digits, up to the end of the input
amountPatternTest(chars) ==
  LET n == Len(chars)
      ends == {e \in 1..n :
                 \/ e = 1 /\ chars[1] = "0"
                 \/ /\ chars[1] \in DigitChars \ {"0"}
                    /\ \A i \in 2..e : chars[i] \in DigitChars}
  IN \E e \in ends :
       /\ n = e + 3
       /\ chars[e + 1] = "."
       /\ chars[e + 2] \in DigitChars
       /\ chars[e + 3] \in DigitChars

RECURSIVE digitsValue(_)
digitsValue(ds) ==
  IF ds = <<>> THEN 0
  ELSE 10 * digitsValue(SubSeq(ds, 1, Len(ds) - 1)) + DigitValue(ds[Len(ds)])

\* parseFloat of a string the pattern accepts, counted in hundredths
parseFloat(chars) ==
  LET n == Len(chars)
  IN 100 * digitsValue(SubSeq(chars, 1, n - 3))
       + digitsValue(SubSeq(chars, n - 1, n))

\* variant: zero passes the test of the value
invalidAmount_zeroAllowed(v) ==
  IF v.type # "string" THEN TRUE
  ELSE IF trimIsEmpty(v.chars) THEN TRUE
  ELSE IF ~amountPatternTest(v.chars) THEN TRUE
  ELSE parseFloat(v.chars) < 0

\* the test that answers 400 Invalid payment_amount / max_payment_amount
invalidAmount(v) ==
  IF v.type # "string" THEN TRUE
  ELSE IF trimIsEmpty(v.chars) THEN TRUE
  ELSE IF ~amountPatternTest(v.chars) THEN TRUE
  ELSE parseFloat(v.chars) <= 0

\* data_permissions: an array of strings, or something that is no array
NotAnArray == [isArray |-> FALSE, items |-> <<>>]
ArrayOf(items) == [isArray |-> TRUE, items |-> items]

allowedPermissions ==
  {"ReadAccountsBasic", "ReadAccountsDetail", "ReadBalances",
   "ReadBeneficiariesBasic", "ReadBeneficiariesDetail",
   "ReadTransactionsBasic", "ReadTransactionsDetail",
   "ReadTransactionsCredits", "ReadTransactionsDebits",
   "ReadScheduledPaymentsBasic", "ReadScheduledPaymentsDetail",
   "ReadDirectDebits", "ReadStandingOrdersBasic", "ReadStandingOrdersDetail",
   "ReadConsents", "ReadPartyUser", "ReadPartyUserIdentity", "ReadParty"}

\* the test that answers 400 Invalid data_permissions
invalidPermissions(p) ==
  \/ ~p.isArray
  \/ Len(p.items) = 0
  \/ ~(\A i \in 1..Len(p.items) : p.items[i] \in allowedPermissions)

\* valid_from / valid_until as they arrive: kind "undefined" (not in the
\* body), "empty" (""), "invalid" (text new Date cannot read) or "date":
\* the ISO-8601 text of midnight UTC on 1 January of `year` (for a year
\* above 9999 in the expanded form with a sign and six digits)
NoDate == [kind |-> "undefined", year |-> 0]
EmptyDate == [kind |-> "empty", year |-> 0]
InvalidDate == [kind |-> "invalid", year |-> 0]
DateOf(y) == [kind |-> "date", year |-> y]

YearDigits(y, width) ==
  [i \in 1..width |-> 48 + ((y \div (10 ^ (width - i))) % 10)]

\* Date.prototype.toISOString, as UTF-16 code units: the year, then "-"
\* (45), which stands for the rest of the text, "-01-01T00:00:00.000Z",
\* the same for every date above
toISOString(year) ==
  IF year >= 0 /\ year <= 9999 THEN YearDigits(year, 4) \o <<45>>
  ELSE IF year > 9999 THEN <<43>> \o YearDigits(year, 6) \o <<45>>
  ELSE <<45>> \o YearDigits(0 - year, 6) \o <<45>>

\* parseIsoOrUndefined(value): undefined, null or the ISO string
NotGiven == [kind |-> "undefined", text |-> <<>>]
NotADate == [kind |-> "null", text |-> <<>>]

parseIsoOrUndefined(value) ==
  IF value.kind \in {"undefined", "empty"} THEN NotGiven
  ELSE IF value.kind = "invalid" THEN NotADate
  ELSE [kind |-> "iso", text |-> toISOString(value.year)]

\* a < b for two JavaScript strings: by code unit, a proper prefix first
RECURSIVE StringLess(_, _)
StringLess(a, b) ==
  IF b = <<>> THEN FALSE
  ELSE IF a = <<>> THEN TRUE
  ELSE IF a[1] # b[1] THEN a[1] < b[1]
  ELSE StringLess(Tail(a), Tail(b))

\* parsedValidFrom && parsedValidUntil && parsedValidFrom >= parsedValidUntil
invalidRange(from, until) ==
  /\ from.kind = "iso"
  /\ until.kind = "iso"
  /\ ~StringLess(from.text, until.text)

\* the PAR endpoint's answer as axios reports it: kind "ok" (a 2xx
\* response, resolved), "rejected" (any other response, thrown with
\* error.response) or "unreachable" (thrown without a response); data ""
\* is an empty body, Null a body that reads as the JSON value null
NoAnswer == [kind |-> "none", status |-> 0, data |-> ""]

ParAnswers ==
  [kind : {"ok"}, status : {200, 201}, data : {"request_uri"}]
  \cup [kind : {"rejected"}, status : {400, 502},
        data : {"", Null, "invalid_request"}]
  \cup [kind : {"unreachable"}, status : {0}, data : {""}]

\* what the handler answers with
NoReply ==
  [sent |-> FALSE, status |-> 0, body |-> "", redirect |-> Null,
   consent_id |-> Null, code_verifier |-> Null]

NoBody ==
  [amount |-> UndefinedValue, data_permissions |-> NotAnArray,
   valid_from |-> NoDate, valid_until |-> NoDate]

\* stateData as text: the characters (UTF-16 code units) of its members
NoStateData == [code_verifier |-> <<>>, consent_id |-> <<>>]

\* what JSON.parse gives for the text of an object: its members in the
\* order read, or ok = FALSE when it throws
NotParsed == [ok |-> FALSE, members |-> <<>>]

\* at: where the handler stands; did: the calls it has made, in order;
\* from, until: parsedValidFrom and parsedValidUntil; stateData, stateText:
\* the state object and the text btoa made of it; statePayload: what
\* recordConsentCallback decoded from that text; pii: how the call of
\* encryptPII ended
IdleHandler ==
  [route |-> "none", at |-> "idle", body |-> NoBody, consentId |-> Null,
   codeVerifier |-> Null, state |-> StateAbsent, from |-> NotGiven,
   until |-> NotGiven, did |-> <<>>, answer |-> NoAnswer, reply |-> NoReply,
   stateData |-> NoStateData, stateText |-> <<>>, statePayload |-> NotParsed,
   pii |-> "none"]

\* res.status(400).json(...)
Rejected(route, body, message) ==
  [IdleHandler EXCEPT
     !.route = route, !.at = "responded", !.body = body,
     !.reply = [NoReply EXCEPT !.sent = TRUE, !.status = 400,
                               !.body = message]]

\* ------------------------------------------------------ client assertions
\* issued: how many assertions CreateClientAssertion has returned; carried:
\* for each request sent to the PAR or token endpoint, in order, the
\* endpoint, the assertion in its client_assertion member and, for the
\* token endpoint, the grant in its data
NoAssertions == [issued |-> 0, carried |-> <<>>]

\* CreateClientAssertion(), when `issued` assertions were returned before:
\* a freshly signed token with a jti of its own, named by its number
CreateClientAssertion(issued) == issued + 1

\* variant: the assertion of the first request is kept and sent again
signedClientAssertion_kept(c) ==
  IF c.carried = <<>> THEN CreateClientAssertion(c.issued)
  ELSE c.carried[1].client_assertion

\* const signedClientAssertion = await CreateClientAssertion()
signedClientAssertion(c) == CreateClientAssertion(c.issued)

\* the data of a request that is not a token request
NoGrant ==
  [grant_type |-> "none", refresh_token |-> Undef, code |-> Undef,
   code_verifier |-> Undef]

\* the assertion is created and the request that carries it is sent
Asserted(c, endpoint, data) ==
  [issued |-> c.issued + 1,
   carried |-> Append(c.carried,
                      [to |-> endpoint, data |-> data,
                       client_assertion |-> signedClientAssertion(c)])]

\* ------------------------------------------------------- authCodeStore
MAX_RECORDS == 50

\* null, as getLatestAuthCodeRecord returns it; call: the number of the
\* addAuthCodeRecord call that stored the record (history)
NoRecord ==
  [isNull |-> TRUE, code |-> Undef, code_verifier |-> Undef,
   receivedAt |-> NullTime, call |-> 0]

\* calls: how often addAuthCodeRecord was called; reply: what the debug
\* router answered last
NoDebug ==
  [calls |-> 0, route |-> "none", httpStatus |-> 0, record |-> NoRecord,
   entries |-> <<>>]

\* variant: the array is never shortened
addAuthCodeRecord_noPop(recs, entry) == <<entry>> \o recs

\* variant: the entry is pushed and the first record is shifted out
addAuthCodeRecord_push(recs, entry) ==
  LET pushed == Append(recs, entry)
  IN IF Len(pushed) > MAX_RECORDS THEN Tail(pushed) ELSE pushed

\* records.unshift(entry); if (records.length > MAX_RECORDS) records.pop()
addAuthCodeRecord(recs, entry) ==
  LET unshifted == <<entry>> \o recs
  IN IF Len(unshifted) > MAX_RECORDS
       THEN SubSeq(unshifted, 1, Len(unshifted) - 1)
       ELSE unshifted

getAuthCodeRecords(recs) == recs

\* records[0] ?? null
getLatestAuthCodeRecord(recs) == IF recs = <<>> THEN NoRecord ELSE recs[1]

\* POST /debug/auth-code
dbgPost ==
  /\ debug.calls < MaxAdds
  /\ \E code \in {Undef, "", "abc123"}, code_verifier \in {Undef, "v1"} :
       IF ~Truthy(code) \/ ~Truthy(code_verifier)
         THEN /\ debug' = [NoDebug EXCEPT !.calls = debug.calls,
                                          !.route = "post",
                                          !.httpStatus = 400]
              /\ UNCHANGED records
         ELSE LET entry == [isNull |-> FALSE, code |-> code,
                            code_verifier |-> code_verifier,
                            receivedAt |-> IsoTime(now),
                            call |-> debug.calls + 1]
              IN /\ records' = addAuthCodeRecord(records, entry)
                 /\ debug' = [NoDebug EXCEPT !.calls = debug.calls + 1,
                                             !.route = "post",
                                             !.httpStatus = 201,
                                             !.record = entry]
  /\ UNCHANGED notDebug

\* GET /debug/auth-code/latest
dbgLatest ==
  /\ LET latest == getLatestAuthCodeRecord(records)
     IN debug' = [NoDebug EXCEPT !.calls = debug.calls,
                                 !.route = "latest",
                                 !.httpStatus =
                                   IF latest.isNull THEN 404 ELSE 200,
                                 !.record = latest]
  /\ UNCHANGED records
  /\ UNCHANGED notDebug

\* GET /debug/auth-codes
dbgList ==
  /\ debug' = [NoDebug EXCEPT !.calls = debug.calls, !.route = "list",
                              !.httpStatus = 200,
                              !.entries = getAuthCodeRecords(records)]
  /\ UNCHANGED records
  /\ UNCHANGED notDebug

\* ----------------------------------------------------- MCP server: SSE
\* transport.sessionId of the transports the server creates
SessionIds == 1..MaxSessions

\* the sessionId query parameter of a POST: absent, empty, or an id: of a
\* transport, or 0, which no transport has
NoSessionId == [kind |-> "absent", id |-> 0]

SessionIdParams ==
  {NoSessionId, [kind |-> "empty", id |-> 0]}
  \cup {[kind |-> "id", id |-> s] : s \in {0} \cup SessionIds}

\* life: "new" (not created), "connecting" (server.connect pending),
\* "connected", "failed" (server.connect threw), "closed" (the transport
\* closed); posts, post: the POSTs served and the answer to the last one
\* (to: the transport it was handed to, 0 for none)
NoSse ==
  [life |-> [s \in SessionIds |-> "new"], posts |-> 0,
   post |-> [sessionId |-> NoSessionId, httpStatus |-> 0, to |-> 0]]

\* variant: the catch block leaves the map alone
connectFailed_kept(map, sessionId) == map

\* catch (error) { sessions.delete(transport.sessionId); ... }
connectFailed(map, sessionId) == map \ {sessionId}

\* transport.onclose: sessions.delete(transport.sessionId)
onclose(map, sessionId) == map \ {sessionId}

\* handleSse up to `await server.connect(transport)`
handleSse ==
  /\ \E s \in SessionIds :
       /\ sse.life[s] = "new"
       /\ sessions' = sessions \cup {s}
       /\ sse' = [sse EXCEPT !.life[s] = "connecting"]
  /\ UNCHANGED notMcp

\* server.connect(transport) settles
sseConnect ==
  /\ \E s \in SessionIds :
       /\ sse.life[s] = "connecting"
       /\ \/ /\ sse' = [sse EXCEPT !.life[s] = "connected"]
             /\ UNCHANGED sessions
          \/ /\ sse' = [sse EXCEPT !.life[s] = "failed"]
             /\ sessions' = connectFailed(sessions, s)
  /\ UNCHANGED notMcp

\* the transport closes (the client went away, or the server closed it)
\* and calls onclose
sseClose ==
  /\ \E s \in SessionIds :
       /\ sse.life[s] \in {"connecting", "connected", "failed"}
       /\ sessions' = onclose(sessions, s)
       /\ sse' = [sse EXCEPT !.life[s] = "closed"]
  /\ UNCHANGED notMcp

\* handlePostMessage up to the call of transport.handlePostMessage
handlePostMessage ==
  /\ sse.posts < MaxPosts
  /\ \E sessionId \in SessionIdParams :
       sse' = [sse EXCEPT
                 !.posts = @ + 1,
                 !.post =
                   IF sessionId.kind # "id"
                     THEN [sessionId |-> sessionId, httpStatus |-> 400,
                           to |-> 0]
                   ELSE IF sessionId.id \notin sessions
                     THEN [sessionId |-> sessionId, httpStatus |-> 404,
                           to |-> 0]
                   ELSE [sessionId |-> sessionId, httpStatus |-> 0,
                         to |-> sessionId.id]]
  /\ UNCHANGED sessions
  /\ UNCHANGED notMcp

\* ------------------------------------------------- DataSharingWizard
\* step, selectedBank, consentStatus, consent (consentPayload is set),
\* tokenStatus: the component's state.  effect: the polling effect now in
\* place (0: none), effects: how many were set up; gets: the effects whose
\* poll awaits GET /consents/:id; exchanges: the POSTs to
\* /token/authorization-code awaiting an answer, each with the effect
\* whose poll made it; timers: pending setTimeout calls.  History:
\* submitted and failed count the exchanges made and failed, polls the
\* GETs sent, ticks the interval's calls, advances and target the calls
\* of advanceTo and the last one's argument.
NewWizard ==
  [step |-> 0, selectedBank |-> FALSE, consentStatus |-> "idle",
   consent |-> FALSE, tokenStatus |-> "idle", effect |-> 0, effects |-> 0,
   gets |-> {}, exchanges |-> {}, timers |-> 0, submitted |-> 0,
   failed |-> 0, polls |-> 0, ticks |-> 0, advances |-> 0, target |-> 0]

wizardStepsLength == 4

\* variant: the step is set to the target
advanceTo_set(prev, target) ==
  IF target < wizardStepsLength - 1 THEN target ELSE wizardStepsLength - 1

\* Math.min(Math.max(target, prev), wizardSteps.length - 1)
advanceTo(prev, target) ==
  LET max == IF target > prev THEN target ELSE prev
  IN IF max < wizardStepsLength - 1 THEN max ELSE wizardStepsLength - 1

\* advanceTo(target) called on state w
Advanced(w, target) ==
  [w EXCEPT !.step = advanceTo(w.step, target), !.advances = @ + 1,
            !.target = target]

\* the effect's poll is in flight: inFlight of its closure
inFlight(w, e) == e \in w.gets \/ \E x \in w.exchanges : x.by = e

\* the component renders again after a state change: the polling effect
\* is cleaned up (cancelled = true, clearInterval) and, if its condition
\* holds, set up anew, which calls poll() at once
Rendered(w) ==
  IF w.step # 2 \/ ~w.consent \/ w.tokenStatus = "success"
    THEN [w EXCEPT !.effect = 0]
    ELSE [w EXCEPT !.effect = w.effects + 1, !.effects = @ + 1,
                   !.gets = @ \cup {w.effects + 1}, !.polls = @ + 1]

\* a bank card is clicked
wzSelectBank ==
  /\ wz.step = 0
  /\ wz' = Rendered(Advanced([wz EXCEPT !.selectedBank = TRUE], 1))
  /\ UNCHANGED notWizard

\* "Continue to authorize": handleConfirmConsent up to the await in
\* handleCreateConsent
wzConfirm ==
  /\ wz.step = 1
  /\ wz.selectedBank
  /\ wz.consentStatus # "loading"
  /\ wz' = Rendered([wz EXCEPT !.consentStatus = "loading"])
  /\ UNCHANGED notWizard

\* POST /consent-create/bank-data settles
wzConsentAnswer ==
  /\ wz.consentStatus = "loading"
  /\ \/ wz' = Rendered(Advanced([wz EXCEPT !.consent = TRUE,
                                           !.consentStatus = "success"], 2))
     \/ wz' = Rendered([wz EXCEPT !.consentStatus = "error"])
  /\ UNCHANGED notWizard

\* the interval calls poll of the effect in place
wzPollTick ==
  /\ wz.effect # 0
  /\ wz.ticks < MaxPolls
  /\ wz' = IF inFlight(wz, wz.effect)
             THEN [wz EXCEPT !.ticks = @ + 1]
             ELSE [wz EXCEPT !.ticks = @ + 1, !.polls = @ + 1,
                             !.gets = @ \cup {wz.effect}]
  /\ UNCHANGED notWizard

\* GET /consents/:id settles for the poll of effect e: without an
\* auth_code (or with an error), or with one, which a poll that is not
\* cancelled hands to exchangeAuthorizationCode
wzPollAnswer ==
  /\ \E e \in wz.gets :
       LET got == [wz EXCEPT !.gets = @ \ {e}]
       IN \/ wz' = got
          \/ /\ e # wz.effect
             /\ wz' = got
          \/ /\ e = wz.effect
             /\ wz.submitted < MaxExchanges
             /\ LET sent == [got EXCEPT
                               !.exchanges =
                                 @ \cup {[id |-> wz.submitted + 1, by |-> e]},
                               !.submitted = @ + 1,
                               !.tokenStatus = "loading"]
                IN wz' = IF wz.tokenStatus = "loading" THEN sent
                         ELSE Rendered(sent)
  /\ UNCHANGED notWizard

\* POST /token/authorization-code settles
wzExchangeAnswer ==
  /\ \E x \in wz.exchanges :
       LET got == [wz EXCEPT !.exchanges = @ \ {x}]
       IN \/ wz' = Rendered([got EXCEPT !.tokenStatus = "success",
                                        !.timers = @ + 1])
          \/ wz' = Rendered([got EXCEPT !.tokenStatus = "error",
                                        !.failed = @ + 1])
  /\ UNCHANGED notWizard

\* setTimeout(() => advanceTo(3), 1200) fires
wzTimer ==
  /\ wz.timers > 0
  /\ LET fired == Advanced([wz EXCEPT !.timers = @ - 1], 3)
     IN wz' = IF fired.step = wz.step THEN fired ELSE Rendered(fired)
  /\ UNCHANGED notWizard

\* advanceTo called with any target
wzAdvanceTo ==
  /\ wz.advances < MaxAdvances
  /\ \E target \in -1..MaxTarget :
       wz' = Rendered(Advanced(wz, target))
  /\ UNCHANGED notWizard

\* ------------------------------------------- starter kit: shutdown
\* no call of process.exit yet; {code} after process.exit(code)
NotExited == {}
Signals == {"SIGINT", "SIGTERM"}

\* the process after app.listen: shuttingDown; signal: the one terminate
\* logged; timeout: the 5-second timer ("none", "armed", "cleared",
\* "fired"); close: server.close ("none", "pending", "closed", "error");
\* exit: the code given to process.exit, as a set; connections: the
\* server's open connections.  History: signals received, timeouts set, closes called,
\* connections accepted.
Listening ==
  [shuttingDown |-> FALSE, signal |-> "none", timeout |-> "none",
   close |-> "none", exit |-> NotExited, connections |-> 0,
   signals |-> 0, timeouts |-> 0, closes |-> 0, accepted |-> 0]

\* variant: no shuttingDown guard
terminate_again(s, signal) ==
  [s EXCEPT !.shuttingDown = TRUE, !.signal = signal,
            !.timeout = "armed", !.timeouts = @ + 1,
            !.close = "pending", !.closes = @ + 1]

\* terminate(signal): setTimeout and server.close, once
terminate(s, signal) ==
  IF s.shuttingDown THEN s
  ELSE [s EXCEPT !.shuttingDown = TRUE, !.signal = signal,
                 !.timeout = "armed", !.timeouts = @ + 1,
                 !.close = "pending", !.closes = @ + 1]

\* a client connects; a closing server accepts no connection
sdConnect ==
  /\ sd.exit = NotExited
  /\ sd.close = "none"
  /\ sd.accepted < MaxConnections
  /\ sd' = [sd EXCEPT !.connections = @ + 1, !.accepted = @ + 1]
  /\ UNCHANGED notShutdown

\* a connection ends
sdDisconnect ==
  /\ sd.exit = NotExited
  /\ sd.connections > 0
  /\ sd' = [sd EXCEPT !.connections = @ - 1]
  /\ UNCHANGED notShutdown

\* process.on(signal, () => terminate(signal))
sdSignal ==
  /\ sd.exit = NotExited
  /\ sd.signals < MaxSignals
  /\ \E signal \in Signals :
       sd' = [terminate(sd, signal) EXCEPT !.signals = @ + 1]
  /\ UNCHANGED notShutdown

\* the callback of server.close, called once no connection is left:
\* process.exit(1) on an error, clearTimeout and process.exit(0) otherwise
sdClosed ==
  /\ sd.exit = NotExited
  /\ sd.close = "pending"
  /\ sd.connections = 0
  /\ \/ sd' = [sd EXCEPT !.close = "error", !.exit = {1}]
     \/ sd' = [sd EXCEPT !.close = "closed", !.timeout = "cleared",
                         !.exit = {0}]
  /\ UNCHANGED notShutdown

\* the 5-second timer fires: process.exit(1)
sdTimeout ==
  /\ sd.exit = NotExited
  /\ sd.timeout = "armed"
  /\ sd' = [sd EXCEPT !.timeout = "fired", !.exit = {1}]
  /\ UNCHANGED notShutdown

\* ------------------------------------------------------------------ Init
Init ==
  /\ store = [c \in {} |-> DefaultRow]
  /\ enabled \in BOOLEAN
  /\ now = 0
  /\ resp = NoResp
  /\ pc = [p \in Procs |-> "idle"]
  /\ loc = [p \in Procs |-> IdleLoc]
  /\ log = [p \in Procs |-> EmptyLog]
  /\ last = NoLast
  /\ nCallbacks = 0
  /\ nCreations = 0
  /\ nInvocations = 0
  /\ h = IdleHandler
  /\ ca = NoAssertions
  /\ records = <<>>
  /\ debug = NoDebug
  /\ sessions = {}
  /\ sse = NoSse
  /\ wz = NewWizard
  /\ sd = Listening

\* time passes
Tick ==
  /\ now < MaxTicks * TickMs
  /\ now' = now + TickMs
  /\ UNCHANGED <<others, ca, h, store, enabled, resp, pc, loc, log, last, nCallbacks,
                 nCreations, nInvocations>>

\* ------------------------------------------------------ consent creation
MetaInputs ==
  {UndefMeta,
   ObjMeta("https://api", NoTokenCache),
   ObjMeta(Undef, TokenCache("at0", Undef, BadTime, NullTime))}

CreationArgs ==
  [consentId : {Undef} \cup ConsentIds,
   consentType : {"bank_data"},
   redirectUrl : {"https://as/auth"},
   codeVerifier : {"v1", "v2"},
   bankLabel : {Undef},
   metadata : MetaInputs,
   status : {Undef}]

\* the columns a caller of recordConsentCreation passes a value for
GivenCreation(a) ==
  {f \in {"consent_type", "redirect_url", "code_verifier", "bank_label",
          "status"} :
     [consent_type |-> a.consentType, redirect_url |-> a.redirectUrl,
      code_verifier |-> a.codeVerifier, bank_label |-> a.bankLabel,
      status |-> a.status][f] # Undef}
  \cup (IF a.metadata.kind # "undefined" THEN {"metadata"} ELSE {})

\* one call of the starter kit's recordConsentCreation
CreationStep(args) ==
  /\ \E a \in args, fails \in BOOLEAN :
       /\ a.consentId \in ConsentIds => a.codeVerifier = VerifierOf(a.consentId)
       /\ LET r == recordConsentCreation(store, a, fails)
          IN /\ store' = r.store
             /\ last' = Logged(
                  [op |-> "creation", id |-> a.consentId, by |-> "none",
                   up |-> enabled /\ ~fails, ok |-> r.ok,
                   given |-> GivenCreation(a),
                   sent |-> IF r.ok THEN Sent(payloadOf(creationRecord(a)))
                            ELSE NoSent])
  /\ nCreations' = nCreations + 1
  /\ UNCHANGED <<others, ca, h, enabled, now, resp, pc, loc, log, nCallbacks, nInvocations>>

\* a caller of the starter kit's recordConsentCreation
RecordConsentCreationOn(args) ==
  /\ nCreations < MaxCreations
  /\ CreationStep(args)

RecordConsentCreation == RecordConsentCreationOn(CreationArgs)

\* the creation write of a consent the PAR endpoint accepted
ConsentCreated ==
  RecordConsentCreationOn({a \in CreationArgs : a.consentId = "c1"})

McpEvents ==
  [consentId : {Undef} \cup ConsentIds,
   consentType : {"bank_data"},
   redirectUrl : {Undef, "https://as/auth"},
   codeVerifier : {Undef, "v1", "v2"},
   metadata : {ObjMeta("https://api", NoTokenCache)},
   status : {"mcp_recorded"}]

\* the columns a caller of recordConsentCreationFromMcp passes a value for
GivenMcp(e) ==
  {f \in {"consent_type", "redirect_url", "code_verifier", "status"} :
     [consent_type |-> e.consentType, redirect_url |-> e.redirectUrl,
      code_verifier |-> e.codeVerifier, status |-> e.status][f] # Undef}
  \cup (IF e.metadata.kind # "undefined" THEN {"metadata"} ELSE {})

\* one call of recordConsentCreationFromMcp
McpStep ==
  /\ \E e \in McpEvents, fails \in BOOLEAN :
       /\ e.consentId \in ConsentIds
            => e.codeVerifier \in {Undef, VerifierOf(e.consentId)}
       /\ e.consentId = Undef => e.codeVerifier = Undef /\ e.redirectUrl = Undef
       /\ LET r == recordConsentCreationFromMcp(store, e, fails)
          IN /\ store' = r.store
             /\ last' = Logged(
                  [op |-> "mcp", id |-> e.consentId, by |-> "none",
                   up |-> enabled /\ ~fails, ok |-> r.ok,
                   given |-> GivenMcp(e),
                   sent |-> IF r.ok THEN Sent(mcpPayload(e)) ELSE NoSent])
  /\ nCreations' = nCreations + 1
  /\ UNCHANGED <<others, ca, h, enabled, now, resp, pc, loc, log, nCallbacks, nInvocations>>

\* OpenFinanceClient.createConsent / createDataConsent recording the
\* consent the starter kit's API returned
RecordConsentCreationFromMcp ==
  /\ nCreations < MaxCreations
  /\ McpStep

\* ---------------------------------------------------- callback handlers
StateTruthy(st) == st.kind \notin {"absent", "empty"}

CallbackArgs(code, st, iss, err, desc) ==
  [code |-> code, state |-> st, issuer |-> iss, error |-> err,
   errorDescription |-> desc, query |-> Query(code, st.kind, iss, err, desc)]

\* the columns a callback handler passes a value for
GivenCallback(a) ==
  {"callback_query"}
  \cup (IF a.code # Undef THEN {"auth_code"} ELSE {})
  \cup (IF a.issuer # Undef THEN {"issuer"} ELSE {})
  \cup (IF a.state.kind # "absent" THEN {"state_payload"} ELSE {})
  \cup (IF a.error # Undef \/ a.errorDescription # Undef
          THEN {"callback_error"} ELSE {})

\* the entry of `last` for a call of recordConsentCallback that returned r
CallbackEntry(a, fails, r) ==
  Logged([op |-> "callback", id |-> consentIdOf(decodeBase64Json(a.state)),
          by |-> "none", up |-> enabled /\ ~fails, ok |-> r.ok,
          given |-> GivenCallback(a),
          sent |-> IF r.ok THEN Sent(payloadOf(callbackRecord(a)))
                   ELSE NoSent])

\* app.get("/client/callback", ...) of the starter kit, for a request
\* whose query is one of `queries`
ExpressCallbackOn(queries) ==
  /\ nCallbacks < MaxCallbacks
  /\ \E q \in queries, fails \in BOOLEAN :
       LET a == CallbackArgs(q.code, q.state, q.iss, q.error,
                             q.error_description)
       IN IF ~Truthy(q.code) /\ ~StateTruthy(q.state) /\ ~Truthy(q.error)
            THEN /\ resp' = [NoResp EXCEPT !.handler = "express", !.args = a]
                 /\ UNCHANGED <<store, last>>
            ELSE LET r == recordConsentCallback(store, a, fails)
                 IN /\ store' = r.store
                    /\ last' = CallbackEntry(a, fails, r)
                    /\ resp' = [handler |-> "express", handled |-> TRUE,
                                httpStatus |->
                                  IF Truthy(q.error) THEN 400 ELSE 200,
                                persisted |-> TRUE, returned |-> r.ok,
                                args |-> a]
  /\ nCallbacks' = nCallbacks + 1
  /\ UNCHANGED <<others, ca, h, enabled, now, pc, loc, log, nCreations, nInvocations>>

\* the request handler of the stand-alone callback listener
ListenerCallbackOn(queries) ==
  /\ nCallbacks < MaxCallbacks
  /\ \E q \in queries, fails \in BOOLEAN :
       LET a == CallbackArgs(q.code, q.state, q.iss, q.error,
                             q.error_description)
           r == recordConsentCallback(store, a, fails)
       IN /\ store' = r.store
          /\ last' = CallbackEntry(a, fails, r)
          /\ resp' = [handler |-> "listener", handled |-> TRUE,
                      httpStatus |-> IF Truthy(q.error) THEN 400 ELSE 200,
                      persisted |-> TRUE, returned |-> r.ok, args |-> a]
  /\ nCallbacks' = nCallbacks + 1
  /\ UNCHANGED <<others, ca, h, enabled, now, pc, loc, log, nCreations, nInvocations>>

ExpressCallback == ExpressCallbackOn(AllCallbacks)
ListenerCallback == ListenerCallbackOn(AllCallbacks)

\* the redirects of either consent, with a code, with an empty code and
\* without one
ConsentRedirects ==
  {q \in CallbackQueries :
     /\ q.state \in {StateOf(c) : c \in ConsentIds}
     /\ q.iss = Undef /\ q.error = Undef /\ q.error_description = Undef}

ConsentRedirect == ExpressCallbackOn(ConsentRedirects)

\* the redirect that follows a consent the end user was sent to authorize
AuthorizationRedirect == ExpressCallbackOn(AuthorizedCallbacks)

\* ------------------------------------------------------ fetchDashboardData
\* variant: the test without the code_verifier
notAuthorized_noVerifier(consent) ==
  \/ consent.consent_id = Null
  \/ ~Truthy(consent.consent_id)
  \/ ~Truthy(consent.row.auth_code)

\* !consent || !consent.consent_id || !consent.auth_code ||
\* !consent.code_verifier
notAuthorized(consent) ==
  \/ consent.consent_id = Null
  \/ ~Truthy(consent.consent_id)
  \/ ~Truthy(consent.row.auth_code)
  \/ ~Truthy(consent.row.code_verifier)

\* the guard, fetchLatestAuthorizedConsent, the precondition test and the
\* cache lookup: everything up to the first token or resource request
Load(p, read) ==
  LET consent == read
      metadata == coerceMetadata(consent.row.metadata)
      tokenCache == coerceTokenCache(metadata)
      accessToken == usableAccessToken(tokenCache, now)
      refreshToken == Coalesce(tokenCache.refresh_token, Null)
  IN IF notAuthorized(consent)
       THEN /\ pc' = [pc EXCEPT ![p] = "failed"]
            /\ loc' = [loc EXCEPT ![p] = [IdleLoc EXCEPT !.consent = consent]]
            /\ log' = [log EXCEPT ![p] =
                         [EmptyLog EXCEPT !.outcome = "no_consent",
                                          !.checkedAt = now]]
       ELSE /\ pc' = [pc EXCEPT ![p] =
                        IF Truthy(accessToken) THEN "resource" ELSE "token"]
            /\ loc' = [loc EXCEPT ![p] =
                         [consent |-> consent, metadata |-> metadata,
                          accessToken |-> accessToken,
                          refreshToken |-> refreshToken, next |-> NullMeta]]
            /\ log' = [log EXCEPT ![p] =
                         [EmptyLog EXCEPT !.outcome = "loaded",
                                          !.checkedAt = now]]

fdLoad(p) ==
  /\ pc[p] = "idle"
  /\ nInvocations < MaxInvocations
  /\ IF ~enabled
       THEN /\ pc' = [pc EXCEPT ![p] = "failed"]
            /\ log' = [log EXCEPT ![p] =
                         [EmptyLog EXCEPT !.outcome = "store_disabled"]]
            /\ UNCHANGED loc
       ELSE \/ \* the select answers with an error, which is rethrown
               /\ pc' = [pc EXCEPT ![p] = "failed"]
               /\ log' = [log EXCEPT ![p] =
                            [EmptyLog EXCEPT !.outcome = "read_error"]]
               /\ UNCHANGED loc
            \/ /\ fetchLatestAuthorizedConsent(store) = {}
               /\ Load(p, NoConsent)
            \/ \E c \in fetchLatestAuthorizedConsent(store) :
                 Load(p, [consent_id |-> c, row |-> store[c]])
  /\ nInvocations' = nInvocations + 1
  /\ UNCHANGED <<others, ca, h, store, enabled, now, resp, last, nCallbacks, nCreations>>

\* variant: the test at `if (refreshToken)` is the other way round
GrantOf_swapped(l) ==
  IF ~Truthy(l.refreshToken)
    THEN [grant_type |-> "refresh_token", refresh_token |-> l.refreshToken,
          code |-> Undef, code_verifier |-> Undef]
    ELSE [grant_type |-> "authorization_code", refresh_token |-> Undef,
          code |-> l.consent.row.auth_code,
          code_verifier |-> l.consent.row.code_verifier]

\* variant: the authorization code is exchanged whether or not a refresh
\* token is held
GrantOf_codeOnly(l) ==
  [grant_type |-> "authorization_code", refresh_token |-> Undef,
   code |-> l.consent.row.auth_code,
   code_verifier |-> l.consent.row.code_verifier]

\* what the branch taken at `if (refreshToken)` sends to the token endpoint
GrantOf(l) ==
  IF Truthy(l.refreshToken)
    THEN [grant_type |-> "refresh_token", refresh_token |-> l.refreshToken,
          code |-> Undef, code_verifier |-> Undef]
    ELSE [grant_type |-> "authorization_code", refresh_token |-> Undef,
          code |-> l.consent.row.auth_code,
          code_verifier |-> l.consent.row.code_verifier]

\* the refresh token kept after a response
NextRefreshToken(l, r) ==
  IF Truthy(l.refreshToken)
    THEN Coalesce(r.refresh_token, l.refreshToken)
    ELSE Coalesce(r.refresh_token, Null)

\* the cache object handed to persistCache
NewCache(accessToken, refreshToken, expiresIn, clock) ==
  TokenCache(accessToken,
             Coalesce(refreshToken, Undef),
             computeExpiryTimestamp(expiresIn, clock),
             IsoTime(clock))

\* variant: only the new token_cache is written
persistCache_cacheOnly(metadata, cache) == ObjMeta(Undef, cache)

\* persistCache: {...metadata, token_cache: cache}
persistCache(metadata, cache) == [metadata EXCEPT !.token_cache = cache]

\* variant: the answer is not tested
noAccessToken_never(accessToken) == FALSE

\* if (!accessToken) { throw ... }
noAccessToken(accessToken) == ~Truthy(accessToken)

\* refreshAccessToken / exchangeAuthorizationCode, the test of the answer
\* and the call of persistCache up to the table update it awaits
fdToken(p) ==
  /\ pc[p] = "token"
  /\ LET l == loc[p]
         call == GrantOf(l)
     IN \/ \* tokenRequest throws: CreateClientAssertion did and no request
           \* was sent, or the request was sent and failed
           /\ \/ UNCHANGED ca
              \/ /\ ca.issued < MaxAssertions
                 /\ ca' = Asserted(ca, "token", call)
           /\ pc' = [pc EXCEPT ![p] = "failed"]
           /\ log' = [log EXCEPT ![p].tokenCalls =
                        Append(@, [call |-> call, ok |-> FALSE,
                                   response |-> [access_token |-> Undef,
                                                 refresh_token |-> Undef,
                                                 expires_in |-> NoExpiresIn],
                                   at |-> now])]
           /\ UNCHANGED loc
        \/ \E r \in TokenResponses :
             LET accessToken == Coalesce(r.access_token, Null)
                 refreshToken == NextRefreshToken(l, r)
                 entry == [call |-> call, ok |-> TRUE, response |-> r,
                           at |-> now]
             IN /\ ca.issued < MaxAssertions
                /\ ca' = Asserted(ca, "token", call)
                /\ IF noAccessToken(accessToken)
                  THEN /\ pc' = [pc EXCEPT ![p] = "failed"]
                       /\ log' = [log EXCEPT ![p].tokenCalls = Append(@, entry)]
                       /\ loc' = [loc EXCEPT ![p].accessToken = accessToken,
                                             ![p].refreshToken = refreshToken]
                  ELSE /\ pc' = [pc EXCEPT ![p] = "persist"]
                       /\ log' = [log EXCEPT
                                    ![p].tokenCalls = Append(@, entry),
                                    ![p].issued = @ \cup {accessToken}]
                       /\ loc' = [loc EXCEPT
                                    ![p].accessToken = accessToken,
                                    ![p].refreshToken = refreshToken,
                                    ![p].next =
                                      persistCache(l.metadata,
                                        NewCache(accessToken, refreshToken,
                                                 r.expires_in, now))]
  /\ UNCHANGED <<others, h, store, enabled, now, resp, last, nCallbacks, nCreations,
                 nInvocations>>

\* variant: the metadata is written with an upsert
updateConsentMetadata_upsert(s, consentId, metadata, fails) ==
  IF ~enabled \/ ~Truthy(consentId) \/ fails THEN s
  ELSE Upsert(s, consentId,
              [metadata |-> metadata, updated_at |-> IsoTime(now)])

\* updateConsentMetadata(consentId, metadata): the table update; an error
\* of the table is logged and swallowed
updateConsentMetadata(s, consentId, metadata, fails) ==
  IF ~enabled \/ ~Truthy(consentId) \/ fails THEN s
  ELSE Update(s, consentId,
              [metadata |-> metadata, updated_at |-> IsoTime(now)])

fdPersist(p) ==
  /\ pc[p] = "persist"
  /\ \E fails \in BOOLEAN :
       /\ store' = updateConsentMetadata(store, loc[p].consent.consent_id,
                                         loc[p].next, fails)
       /\ log' = [log EXCEPT ![p].writes =
                    Append(@, [metadata |-> loc[p].next, ok |-> ~fails])]
       /\ last' = Logged(
            [op |-> "persist", id |-> loc[p].consent.consent_id,
             by |-> p, up |-> enabled /\ ~fails, ok |-> ~fails,
             given |-> {"metadata"},
             sent |-> IF enabled /\ ~fails
                        THEN Sent([metadata |-> loc[p].next,
                                   updated_at |-> IsoTime(now)])
                        ELSE NoSent])
  /\ pc' = [pc EXCEPT ![p] = "resource"]
  /\ UNCHANGED <<others, ca, h, enabled, now, resp, loc, nCallbacks, nCreations,
                 nInvocations>>

\* updateConsentMetadata called for any consent id, whether or not the
\* table holds a row for it
MetadataUpdate ==
  /\ \E c \in ConsentIds, fails \in BOOLEAN,
        m \in {NullMeta, ObjMeta("https://api", NoTokenCache)} :
       /\ store' = updateConsentMetadata(store, c, m, fails)
       /\ last' = Logged(
            [op |-> "persist", id |-> c, by |-> "none",
             up |-> enabled /\ ~fails, ok |-> ~fails,
             given |-> {"metadata"},
             sent |-> IF enabled /\ ~fails
                        THEN Sent([metadata |-> m,
                                   updated_at |-> IsoTime(now)])
                        ELSE NoSent])
  /\ UNCHANGED <<others, ca, h, enabled, now, resp, pc, loc, log, nCallbacks, nCreations,
                 nInvocations>>

\* the resource requests (accounts, balances, transactions, parties), all
\* made with the same accessToken
fdResource(p) ==
  /\ pc[p] = "resource"
  /\ IF ~Truthy(loc[p].accessToken)
       THEN /\ pc' = [pc EXCEPT ![p] = "failed"]
            /\ UNCHANGED log
       ELSE /\ log' = [log EXCEPT ![p].resourceTokens =
                         @ \cup {loc[p].accessToken}]
            /\ \E fails \in BOOLEAN :
                 pc' = [pc EXCEPT ![p] = IF fails THEN "failed" ELSE "done"]
  /\ UNCHANGED <<others, ca, h, store, enabled, now, resp, loc, last, nCallbacks,
                 nCreations, nInvocations>>

\* the members of the object fetchDashboardData returns
DashboardData ==
  {"consentId", "balances", "dashboardAccounts", "transactionsByAccount",
   "party"}

\* the invocation has returned or thrown; the route answers
fdReturn(p) ==
  /\ pc[p] \in {"done", "failed"}
  /\ pc' = [pc EXCEPT ![p] = "idle"]
  /\ loc' = [loc EXCEPT ![p] = IdleLoc]
  /\ log' = [log EXCEPT ![p] = EmptyLog]
  /\ UNCHANGED <<others, ca, h, store, enabled, now, resp, last, nCallbacks, nCreations,
                 nInvocations>>

\* -------------------------------------- consent-creation handlers: steps
PaymentRoutes == {"single-payment", "variable-on-demand-payments"}

AmountChars == {"0", "1", ".", "-", " "}

\* the amounts of the validator's examples
ExampleAmounts ==
  {<<"1", "0", "0", ".", "0", "0">>, <<"0", ".", "0", "1">>,
   <<"1", "0", "0">>, <<"1", "0", "0", ".", "0">>,
   <<"1", "0", "0", ".", "0", "0", "5">>, <<"-", "5", ".", "0", "0">>,
   <<"0", ".", "0", "0">>}

AmountInputs ==
  {NumberValue, UndefinedValue}
  \cup {StringValue(s) :
          s \in ExampleAmounts
                \cup UNION {[1..k -> AmountChars] : k \in 0..MaxAmountLen}}

PermissionInputs == {"ReadAccountsBasic", "ReadBalances", "ReadEverything"}

PermissionArrays ==
  {NotAnArray}
  \cup {ArrayOf(s) :
          s \in UNION {[1..k -> PermissionInputs] : k \in 0..MaxPermissions}}

DateInputs ==
  {NoDate, EmptyDate, InvalidDate, DateOf(2024), DateOf(2025), DateOf(10000)}

HandlerUnchanged ==
  UNCHANGED <<others, store, enabled, now, resp, pc, loc, log, last,
              nCallbacks, nCreations, nInvocations>>

\* consentId = uuidv4(), codeVerifier = uuidv4() + uuidv4(), stateData and
\* state = btoa(JSON.stringify(stateData)), then the call of JWTSign
Prepared(cur, c) ==
  [cur EXCEPT !.consentId = c, !.codeVerifier = VerifierOf(c),
              !.state = StateOf(c), !.at = "JWTSign",
              !.did = Append(@, "JWTSign")]

\* POST /consent-create/single-payment and
\* POST /consent-create/variable-on-demand-payments, up to the first await
hReceivePayment ==
  /\ h.at = "idle"
  /\ \E route \in PaymentRoutes, amount \in AmountInputs :
       LET body == [NoBody EXCEPT !.amount = amount]
       IN h' = IF invalidAmount(amount)
                 THEN Rejected(route, body,
                        IF route = "single-payment"
                          THEN "Invalid payment_amount"
                          ELSE "Invalid max_payment_amount")
                 ELSE [IdleHandler EXCEPT
                         !.route = route, !.at = "encryptPII", !.body = body,
                         !.did = <<"encryptPII">>]
  /\ UNCHANGED ca
  /\ HandlerUnchanged

\* POST /consent-create/bank-data, up to the first await, for a request
\* whose data_permissions are among `arrays` and whose dates among `dates`
hReceiveBankDataOn(arrays, dates) ==
  /\ h.at = "idle"
  /\ \E perms \in arrays, vf \in dates, vu \in dates :
       LET route == "bank-data"
           body == [NoBody EXCEPT !.data_permissions = perms,
                                  !.valid_from = vf, !.valid_until = vu]
           parsedValidFrom == parseIsoOrUndefined(vf)
           parsedValidUntil == parseIsoOrUndefined(vu)
       IN IF invalidPermissions(perms)
            THEN h' = Rejected(route, body, "Invalid data_permissions")
          ELSE IF parsedValidFrom.kind = "null"
                    \/ parsedValidUntil.kind = "null"
            THEN h' = Rejected(route, body,
                        "valid_from and valid_until must be valid ISO date strings")
          ELSE IF invalidRange(parsedValidFrom, parsedValidUntil)
            THEN h' = Rejected(route, body,
                        "valid_until must be later than valid_from")
          ELSE \E c \in ConsentIds :
                 h' = Prepared([IdleHandler EXCEPT
                                  !.route = route, !.body = body,
                                  !.from = parsedValidFrom,
                                  !.until = parsedValidUntil], c)
  /\ UNCHANGED ca
  /\ HandlerUnchanged

hReceiveBankData == hReceiveBankDataOn(PermissionArrays, DateInputs)

\* a data-sharing request that passes the validation
hReceiveValidBankData ==
  hReceiveBankDataOn({ArrayOf(<<"ReadAccountsBasic">>)}, {NoDate})

\* encryptPII(PII) settles: with the ciphertext, or by throwing
encryptPII == {"encrypted", "failed"}

\* variant: the failure is caught and the handler goes on with the PII it
\* has
afterEncryptPII_caught(cur, outcome, c) ==
  Prepared([cur EXCEPT !.pii = outcome], c)

\* const encryptedPII = await encryptPII(PII), outside any try block: a
\* failure leaves the handler there
afterEncryptPII(cur, outcome, c) ==
  IF outcome = "failed"
    THEN [cur EXCEPT !.pii = outcome, !.at = "crashed"]
    ELSE Prepared([cur EXCEPT !.pii = outcome], c)

\* await encryptPII(PII) returns, or throws out of the handler
hEncrypt ==
  /\ h.at = "encryptPII"
  /\ \E outcome \in encryptPII, c \in ConsentIds :
       h' = afterEncryptPII(h, outcome, c)
  /\ UNCHANGED ca
  /\ HandlerUnchanged

\* await JWTSign(request) returns, or throws out of the handler
hSign ==
  /\ h.at = "JWTSign"
  /\ \/ h' = [h EXCEPT !.at = "crashed"]
     \/ h' = [h EXCEPT !.at = "CreateClientAssertion",
                       !.did = Append(@, "CreateClientAssertion")]
  /\ UNCHANGED ca
  /\ HandlerUnchanged

\* await CreateClientAssertion() returns, or throws out of the handler;
\* then axiosOF.request(requestConfig) is called
hAssert ==
  /\ h.at = "CreateClientAssertion"
  /\ \/ /\ h' = [h EXCEPT !.at = "crashed"]
        /\ UNCHANGED ca
     \/ /\ ca.issued < MaxAssertions
        /\ h' = [h EXCEPT !.at = "PAR", !.did = Append(@, "PAR")]
        /\ ca' = Asserted(ca, "PAR", NoGrant)
  /\ HandlerUnchanged

\* variant: the catch block answers every failure with 500
errorStatus_always500(a) == 500

\* error.response?.status || 500
errorStatus(a) == IF a.kind = "rejected" THEN a.status ELSE 500

\* error.response?.data || { error: error.message }
errorBody(a) ==
  OrElse(IF a.kind = "rejected" THEN a.data ELSE Undef, "error.message")

\* the PAR request settles: the try block answers with the redirect, the
\* catch block with the error
hPar ==
  /\ h.at = "PAR"
  /\ \E a \in ParAnswers :
       h' = [h EXCEPT
               !.at = "responded",
               !.answer = a,
               !.reply =
                 IF a.kind = "ok"
                   THEN [sent |-> TRUE, status |-> a.status,
                         body |-> "redirect", redirect |-> a.data,
                         consent_id |-> h.consentId,
                         code_verifier |-> h.codeVerifier]
                   ELSE [NoReply EXCEPT !.sent = TRUE,
                                        !.status = errorStatus(a),
                                        !.body = errorBody(a)]]
  /\ UNCHANGED ca
  /\ HandlerUnchanged

\* the request is over
hDone ==
  /\ h.at \in {"responded", "crashed"}
  /\ h' = IdleHandler
  /\ UNCHANGED ca
  /\ HandlerUnchanged

\* ------------------------------------------------- the state parameter
\* the characters a uuid is made of, here a letter, a digit and the dash
UuidChars == {97, 52, 45}

IdTexts == UNION {[1..k -> UuidChars] : k \in 1..MaxIdLen}

code_verifier_key ==
  <<99, 111, 100, 101, 95, 118, 101, 114, 105, 102, 105, 101, 114>>
consent_id_key == <<99, 111, 110, 115, 101, 110, 116, 95, 105, 100>>
consentId_key == <<99, 111, 110, 115, 101, 110, 116, 73, 100>>
ConsentId_key == <<67, 111, 110, 115, 101, 110, 116, 73, 100>>

\* const stateData = { code_verifier: codeVerifier, consent_id: consentId }
stateData(codeVerifier, consentId) ==
  [code_verifier |-> codeVerifier, consent_id |-> consentId]

\* JSON.stringify of a string, without the quotes around it: a quote and a
\* backslash are escaped (the texts here hold no control characters)
RECURSIVE escaped(_)
escaped(s) ==
  IF s = <<>> THEN <<>>
  ELSE (IF s[1] \in {34, 92} THEN <<92, s[1]>> ELSE <<s[1]>>)
         \o escaped(Tail(s))

quoted(s) == <<34>> \o escaped(s) \o <<34>>

\* JSON.stringify(stateData)
JSONstringify(d) ==
  <<123>> \o quoted(code_verifier_key) \o <<58>> \o quoted(d.code_verifier)
    \o <<44>> \o quoted(consent_id_key) \o <<58>> \o quoted(d.consent_id)
    \o <<125>>

\* the base64 character of a 6-bit value: A-Z, a-z, 0-9, + and /
Base64Char(v) ==
  IF v < 26 THEN 65 + v
  ELSE IF v < 52 THEN 97 + (v - 26)
  ELSE IF v < 62 THEN 48 + (v - 52)
  ELSE IF v = 62 THEN 43
  ELSE 47

\* btoa(text) for a text of code units below 256: three bytes give four
\* characters, a last group of one or two bytes is filled up with "="
RECURSIVE btoa(_)
btoa(bytes) ==
  IF bytes = <<>> THEN <<>>
  ELSE LET n == Len(bytes)
           b1 == bytes[1]
           b2 == IF n >= 2 THEN bytes[2] ELSE 0
           b3 == IF n >= 3 THEN bytes[3] ELSE 0
       IN <<Base64Char(b1 \div 4),
            Base64Char((b1 % 4) * 16 + (b2 \div 16)),
            IF n >= 2 THEN Base64Char((b2 % 16) * 4 + (b3 \div 64)) ELSE 61,
            IF n >= 3 THEN Base64Char(b3 % 64) ELSE 61>>
            \o (IF n > 3 THEN btoa(SubSeq(bytes, 4, n)) ELSE <<>>)

\* value.padEnd(value.length + ((4 - (value.length % 4)) % 4), "=")
padEnd(value) ==
  value \o [i \in 1..((4 - (Len(value) % 4)) % 4) |-> 61]

\* the 6-bit value of a character for Buffer.from(text, "base64"), which
\* reads the URL-safe - and _ as well; 64 for any other character
Base64Value(ch) ==
  IF ch >= 65 /\ ch <= 90 THEN ch - 65
  ELSE IF ch >= 97 /\ ch <= 122 THEN ch - 71
  ELSE IF ch >= 48 /\ ch <= 57 THEN ch + 4
  ELSE IF ch \in {43, 45} THEN 62
  ELSE IF ch \in {47, 95} THEN 63
  ELSE 64

\* the 6-bit values Buffer.from reads: it stops at the first "=" and
\* skips a character that is none of the alphabet
RECURSIVE sextetsOf(_)
sextetsOf(text) ==
  IF text = <<>> \/ text[1] = 61 THEN <<>>
  ELSE (IF Base64Value(text[1]) = 64 THEN <<>>
        ELSE <<Base64Value(text[1])>>) \o sextetsOf(Tail(text))

\* variant: a last group of fewer than four characters is left out
RECURSIVE bytesOf_wholeGroups(_)
bytesOf_wholeGroups(s) ==
  IF Len(s) < 4 THEN <<>>
  ELSE <<s[1] * 4 + (s[2] \div 16),
         (s[2] % 16) * 16 + (s[3] \div 4),
         (s[3] % 4) * 64 + s[4]>>
         \o bytesOf_wholeGroups(SubSeq(s, 5, Len(s)))

\* the bytes of the 6-bit values: four give three bytes, a last group of
\* three gives two, of two gives one
RECURSIVE bytesOf(_)
bytesOf(s) ==
  IF Len(s) < 2 THEN <<>>
  ELSE IF Len(s) = 2 THEN <<s[1] * 4 + (s[2] \div 16)>>
  ELSE IF Len(s) = 3
    THEN <<s[1] * 4 + (s[2] \div 16), (s[2] % 16) * 16 + (s[3] \div 4)>>
  ELSE <<s[1] * 4 + (s[2] \div 16),
         (s[2] % 16) * 16 + (s[3] \div 4),
         (s[3] % 4) * 64 + s[4]>>
         \o bytesOf(SubSeq(s, 5, Len(s)))

\* Buffer.from(padded, "base64").toString("utf8"): a byte below 128 is its
\* character; a byte from 128 on does not stand for a character by itself
\* and comes out as U+FFFD
BufferToString(text) ==
  LET bytes == bytesOf(sextetsOf(text))
  IN [i \in 1..Len(bytes) |-> IF bytes[i] < 128 THEN bytes[i] ELSE 65533]

\* JSON.parse, a string from the character after its opening quote: ok,
\* the characters, and the position after the closing quote
RECURSIVE stringBody(_, _, _)
stringBody(t, i, acc) ==
  IF i > Len(t) THEN [ok |-> FALSE, value |-> <<>>, next |-> i]
  ELSE IF t[i] = 34 THEN [ok |-> TRUE, value |-> acc, next |-> i + 1]
  ELSE IF t[i] = 92
    THEN IF i + 1 <= Len(t) /\ t[i + 1] \in {34, 92, 47}
           THEN stringBody(t, i + 2, Append(acc, t[i + 1]))
           ELSE [ok |-> FALSE, value |-> <<>>, next |-> i]
  ELSE IF t[i] < 32 THEN [ok |-> FALSE, value |-> <<>>, next |-> i]
  ELSE stringBody(t, i + 1, Append(acc, t[i]))

\* JSON.parse, the members of an object from position i on: "key":"value"
\* followed by a comma and more members, or by the closing brace at the
\* end of the text
RECURSIVE membersFrom(_, _, _)
membersFrom(t, i, acc) ==
  IF i > Len(t) \/ t[i] # 34 THEN NotParsed
  ELSE LET k == stringBody(t, i + 1, <<>>)
       IN IF ~k.ok \/ k.next + 1 > Len(t) THEN NotParsed
          ELSE IF t[k.next] # 58 \/ t[k.next + 1] # 34 THEN NotParsed
          ELSE LET v == stringBody(t, k.next + 2, <<>>)
                   got == Append(acc, [key |-> k.value, value |-> v.value])
               IN IF ~v.ok \/ v.next > Len(t) THEN NotParsed
                  ELSE IF t[v.next] = 44 THEN membersFrom(t, v.next + 1, got)
                  ELSE IF t[v.next] = 125 /\ v.next = Len(t)
                    THEN [ok |-> TRUE, members |-> got]
                  ELSE NotParsed

\* JSON.parse(decoded) for the text of an object whose members are strings
JSONparse(t) ==
  IF Len(t) < 2 \/ t[1] # 123 THEN NotParsed
  ELSE IF t = <<123, 125>> THEN [ok |-> TRUE, members |-> <<>>]
  ELSE membersFrom(t, 2, <<>>)

\* decodeBase64Json(value) on the text of the state parameter
decodeStateText(value) ==
  IF value = <<>> THEN NotParsed
  ELSE JSONparse(BufferToString(padEnd(value)))

\* statePayload?.key: given = FALSE is undefined
memberOf(obj, key) ==
  LET at == {i \in 1..Len(obj.members) : obj.members[i].key = key}
  IN IF ~obj.ok \/ at = {} THEN [given |-> FALSE, text |-> <<>>]
     ELSE [given |-> TRUE,
           text |-> obj.members[CHOOSE i \in at : \A j \in at : j <= i].value]

\* statePayload?.consent_id || statePayload?.consentId ||
\* statePayload?.ConsentId
consentIdText(obj) ==
  LET a == memberOf(obj, consent_id_key)
      b == memberOf(obj, consentId_key)
  IN IF a.given /\ a.text # <<>> THEN a
     ELSE IF b.given /\ b.text # <<>> THEN b
     ELSE memberOf(obj, ConsentId_key)

\* a handler generates consentId and codeVerifier and builds the state
stEncode ==
  /\ h.at = "idle"
  /\ \E consentId \in IdTexts, codeVerifier \in IdTexts :
       h' = [IdleHandler EXCEPT
               !.at = "state",
               !.stateData = stateData(codeVerifier, consentId),
               !.stateText = btoa(JSONstringify(
                               stateData(codeVerifier, consentId)))]
  /\ UNCHANGED ca
  /\ HandlerUnchanged

\* the redirect brings the state back and recordConsentCallback decodes it
stDecode ==
  /\ h.at = "state"
  /\ h' = [h EXCEPT !.at = "decoded",
                    !.statePayload = decodeStateText(h.stateText)]
  /\ UNCHANGED ca
  /\ HandlerUnchanged

stDone ==
  /\ h.at = "decoded"
  /\ h' = IdleHandler
  /\ UNCHANGED ca
  /\ HandlerUnchanged

\* ------------------------------------------------------------------ Next
\* the starter kit serving consents, their redirects and the dashboard
Next ==
  \/ Tick
  \/ ConsentCreated
  \/ AuthorizationRedirect
  \/ \E p \in Procs : fdLoad(p)
  \/ \E p \in Procs : fdToken(p)
  \/ \E p \in Procs : fdPersist(p)
  \/ \E p \in Procs : fdResource(p)
  \/ \E p \in Procs : fdReturn(p)

Spec == Init /\ [][Next]_vars

\* the Consent Store under every writer and every redirect query
NextStore ==
  \/ Tick
  \/ RecordConsentCreation
  \/ RecordConsentCreationFromMcp
  \/ ExpressCallback
  \/ ListenerCallback

SpecStore == Init /\ [][NextStore]_vars

\* the creation writers called again and again, between the redirects of
\* a consent
RepeatedCreation ==
  /\ nCreations < MaxRepeats
  /\ CreationStep(CreationArgs)

RepeatedMcp ==
  /\ nCreations < MaxRepeats
  /\ McpStep

NextUpsert ==
  \/ Tick
  \/ RepeatedCreation
  \/ RepeatedMcp
  \/ AuthorizationRedirect

SpecUpsert == Init /\ [][NextUpsert]_vars

\* the life of a record: the writers that create, the redirects and the
\* metadata updates
NextLifecycle ==
  \/ Tick
  \/ ConsentCreated
  \/ RecordConsentCreationFromMcp
  \/ AuthorizationRedirect
  \/ ListenerCallbackOn(AuthorizedCallbacks)
  \/ MetadataUpdate

SpecLifecycle == Init /\ [][NextLifecycle]_vars

\* the state parameter from the handler that builds it to the callback
\* that reads it
NextState ==
  \/ stEncode
  \/ stDecode
  \/ stDone

SpecState == Init /\ [][NextState]_vars

\* the requests sent to the PAR endpoint and to the token endpoint: the
\* data-sharing route serving requests while the dashboard is loaded once
NextAssert ==
  \/ hReceiveValidBankData
  \/ hSign
  \/ hAssert
  \/ hPar
  \/ hDone
  \/ ConsentCreated
  \/ AuthorizationRedirect
  \/ \E p \in Procs : fdLoad(p)
  \/ \E p \in Procs : fdToken(p)
  \/ \E p \in Procs : fdPersist(p)

SpecAssert == Init /\ [][NextAssert]_vars

\* the query for the latest authorized consent over a table the redirects
\* and the metadata updates of two consents have written
NextQuery ==
  \/ Tick
  \/ ConsentRedirect
  \/ MetadataUpdate
  \/ \E p \in Procs : fdLoad(p)
  \/ \E p \in Procs : fdReturn(p)

SpecQuery == Init /\ [][NextQuery]_vars

\* two invocations of fetchDashboardData that may overlap
Invocations == {"p1", "p2"}

\* the table after consent c1 was created with metadata m and authorized
AuthorizedStore(m) ==
  LET created == recordConsentCreation(
                   [c \in {} |-> DefaultRow],
                   [consentId |-> "c1", consentType |-> "bank_data",
                    redirectUrl |-> "https://as/auth",
                    codeVerifier |-> VerifierOf("c1"), bankLabel |-> Undef,
                    metadata |-> m, status |-> Undef],
                   FALSE).store
  IN recordConsentCallback(
       created,
       CallbackArgs("abc123", StateOf("c1"), Undef, Undef, Undef),
       FALSE).store

\* the table after an invocation exchanged the code of c1 for tokens good
\* for 60 seconds and stored them
ExchangedStore(m) ==
  LET s == AuthorizedStore(m)
  IN updateConsentMetadata(
       s, "c1",
       persistCache(coerceMetadata(s["c1"].metadata),
                    NewCache("at1", "rt1", ExpiresIn(60), now)),
       FALSE)

\* a configured store holding the authorized consent c1, with or without
\* a token cache, and no invocation running
InitOverlap ==
  /\ enabled = TRUE
  /\ now = 0
  /\ store \in {AuthorizedStore(m) : m \in MetaInputs}
               \cup {ExchangedStore(m) : m \in MetaInputs}
  /\ resp = NoResp
  /\ pc = [p \in Invocations |-> "idle"]
  /\ loc = [p \in Invocations |-> IdleLoc]
  /\ log = [p \in Invocations |-> EmptyLog]
  /\ last = NoLast
  /\ nCallbacks = 0
  /\ nCreations = 0
  /\ nInvocations = 0
  /\ h = IdleHandler
  /\ ca = NoAssertions
  /\ records = <<>>
  /\ debug = NoDebug
  /\ sessions = {}
  /\ sse = NoSse
  /\ wz = NewWizard
  /\ sd = Listening

\* the MCP client's creation write for c1, which may arrive late
LateMcpWrite ==
  /\ nCreations < MaxCreations
  /\ \E e \in McpEvents, fails \in BOOLEAN :
       /\ e.consentId = "c1"
       /\ e.codeVerifier = VerifierOf("c1")
       /\ e.redirectUrl # Undef
       /\ LET r == recordConsentCreationFromMcp(store, e, fails)
          IN /\ store' = r.store
             /\ last' = Logged(
                  [op |-> "mcp", id |-> e.consentId, by |-> "none",
                   up |-> enabled /\ ~fails, ok |-> r.ok,
                   given |-> GivenMcp(e),
                   sent |-> IF r.ok THEN Sent(mcpPayload(e)) ELSE NoSent])
  /\ nCreations' = nCreations + 1
  /\ UNCHANGED <<others, ca, h, enabled, now, resp, pc, loc, log, nCallbacks, nInvocations>>

NextOverlap ==
  \/ LateMcpWrite
  \/ \E p \in Invocations : fdLoad(p)
  \/ \E p \in Invocations : fdToken(p)
  \/ \E p \in Invocations : fdPersist(p)

SpecOverlap == InitOverlap /\ [][NextOverlap]_vars

\* the MCP server's SSE sessions and the messages posted to them
NextSse ==
  \/ handleSse
  \/ sseConnect
  \/ sseClose
  \/ handlePostMessage

SpecSse == Init /\ [][NextSse]_vars

\* the data-sharing wizard from the choice of the bank to the token
NextWizard ==
  \/ wzSelectBank
  \/ wzConfirm
  \/ wzConsentAnswer
  \/ wzPollTick
  \/ wzPollAnswer
  \/ wzExchangeAnswer
  \/ wzTimer

SpecWizard == Init /\ [][NextWizard]_vars

\* the wizard, with advanceTo applied to any target at any time
NextAdvance ==
  \/ NextWizard
  \/ wzAdvanceTo

SpecAdvance == Init /\ [][NextAdvance]_vars

\* the starter kit process from listening to its exit
NextShutdown ==
  \/ sdConnect
  \/ sdDisconnect
  \/ sdSignal
  \/ sdClosed
  \/ sdTimeout

SpecShutdown == Init /\ [][NextShutdown]_vars

\* a timer that is armed fires while the process runs, and server.close
\* calls back once the last connection has ended
SpecShutdownFair ==
  SpecShutdown /\ WF_vars(sdTimeout) /\ WF_vars(sdClosed)

\* the debug router over the auth-code buffer
NextDebug ==
  \/ dbgPost
  \/ dbgLatest
  \/ dbgList

SpecDebug == Init /\ [][NextDebug]_vars

\* the consent-creation routes serving one request after another
NextCreate ==
  \/ hReceivePayment
  \/ hReceiveBankData
  \/ hEncrypt
  \/ hSign
  \/ hAssert
  \/ hPar
  \/ hDone

SpecCreate == Init /\ [][NextCreate]_vars

\* ================================================================ claims
\* the token cache of the consent the invocation loaded, as stored
CachedOf(p) == loc[p].consent.row.metadata.token_cache

\* its access token is set and its expires_at is a time strictly more than
\* the safety window after the instant the invocation looked at it
FreshCache(p) ==
  /\ log[p].outcome = "loaded"
  /\ CachedOf(p).present
  /\ CachedOf(p).access_token \notin {Undef, Null, ""}
  /\ CachedOf(p).expires_at.k = "iso"
  /\ CachedOf(p).expires_at.ms > log[p].checkedAt + SafetyWindowMs

\* C1: every access token passed to a resource call is the cached token,
\* whose expires_at was strictly more than 60 s after the time of the
\* check, or a token a token-endpoint call of the same invocation returned;
\* when the cached expires_at is 60 s or less ahead, missing or unparseable,
\* the token used comes from a token-endpoint call.
C1_UsableTokenOnly ==
  \A p \in Procs :
    /\ \A t \in log[p].resourceTokens :
         \/ FreshCache(p) /\ t = CachedOf(p).access_token
         \/ t \in log[p].issued
    /\ (~FreshCache(p) /\ log[p].resourceTokens # {})
         => /\ Len(log[p].tokenCalls) >= 1
            /\ log[p].resourceTokens \subseteq log[p].issued

\* a cached token exactly 60 s from expiry was refreshed and the resource
\* call used the token the endpoint returned, not the cached one
C1_Witness ==
  \E p \in Procs :
    /\ log[p].outcome = "loaded"
    /\ CachedOf(p).expires_at = IsoTime(log[p].checkedAt + SafetyWindowMs)
    /\ Len(log[p].tokenCalls) = 1
    /\ log[p].resourceTokens # {}
    /\ CachedOf(p).access_token \notin log[p].resourceTokens

\* C2: fast path: with a cached access token whose expires_at is more than
\* 60 s ahead, the invocation makes no token-endpoint call and no write to
\* the Consent Store.
C2_FastPath ==
  \A p \in Procs :
    FreshCache(p) => log[p].tokenCalls = <<>> /\ log[p].writes = <<>>

\* the invocation finished on the cached token alone
C2_Witness ==
  \E p \in Procs :
    /\ FreshCache(p)
    /\ pc[p] = "done"
    /\ log[p].resourceTokens = {CachedOf(p).access_token}

\* C3: grant selection: at most one token-endpoint call per invocation;
\* when the cached token is not usable the call is a refresh_token grant
\* if and only if the cache holds a refresh token, and otherwise an
\* authorization_code grant with the stored auth_code and code_verifier.
C3_GrantSelection ==
  \A p \in Procs :
    /\ Len(log[p].tokenCalls) <= 1
    /\ (log[p].outcome = "loaded" /\ ~FreshCache(p) /\ pc[p] # "token")
         => /\ Len(log[p].tokenCalls) = 1
            /\ LET call == log[p].tokenCalls[1].call
                   held == CachedOf(p).refresh_token \notin {Undef, Null, ""}
               IN /\ call.grant_type \in {"refresh_token", "authorization_code"}
                  /\ call.grant_type = "refresh_token" <=> held
                  /\ call.grant_type = "refresh_token"
                       => call.refresh_token = CachedOf(p).refresh_token
                  /\ call.grant_type = "authorization_code"
                       => /\ call.code = loc[p].consent.row.auth_code
                          /\ call.code_verifier =
                               loc[p].consent.row.code_verifier

\* a stale cache with a refresh token led to a refresh_token grant
C3_Witness ==
  \E p \in Procs :
    /\ log[p].outcome = "loaded"
    /\ ~FreshCache(p)
    /\ CachedOf(p).refresh_token = "rt1"
    /\ Len(log[p].tokenCalls) = 1
    /\ log[p].tokenCalls[1].call.grant_type = "refresh_token"

\* the token-endpoint call of the invocation failed
TokenCallFailed(p) ==
  /\ Len(log[p].tokenCalls) >= 1
  /\ \/ ~log[p].tokenCalls[1].ok
     \/ log[p].tokenCalls[1].response.access_token = Undef

\* C4: no fallback: when the refresh_token or authorization_code call
\* throws or answers without an access_token, the invocation fails, no
\* second token-endpoint call follows, no resource call is made and the
\* invocation writes nothing to the store.
C4_NoFallback ==
  \A p \in Procs :
    TokenCallFailed(p)
      => /\ pc[p] = "failed"
         /\ Len(log[p].tokenCalls) = 1
         /\ log[p].resourceTokens = {}
         /\ log[p].writes = <<>>

\* a refresh that answered without an access token ended the invocation
C4_Witness ==
  \E p \in Procs :
    /\ TokenCallFailed(p)
    /\ log[p].tokenCalls[1].ok
    /\ log[p].tokenCalls[1].call.grant_type = "refresh_token"
    /\ pc[p] = "failed"

\* invocation p has just persisted a token cache: its table update was
\* the last operation on the table and the table accepted it
Persisted(p) ==
  /\ last.op = "persist" /\ last.by = p /\ last.up
  /\ log[p].writes # <<>>
  /\ Len(log[p].tokenCalls) = 1

\* the refresh token the claim expects in the cache after response r to
\* call c
ExpectedRefreshToken(c, r) ==
  IF r.refresh_token # Undef THEN r.refresh_token
  ELSE IF c.grant_type = "refresh_token" THEN c.refresh_token
  ELSE Undef

\* the parts of C5 that do not concern expires_at
CacheHoldsTokens(p) ==
  LET e == log[p].tokenCalls[1]
      tc == store[last.id].metadata.token_cache
  IN /\ tc.present
     /\ tc.access_token = e.response.access_token
     /\ tc.refresh_token = ExpectedRefreshToken(e.call, e.response)
     /\ tc.obtained_at = IsoTime(e.at)

\* C5 as stated: after a successful refresh or code exchange the persisted
\* cache holds the new access token, the refresh token returned (on
\* refresh the previous one when none is returned), obtained_at = now and
\* expires_at = now + expires_in seconds, for every numeric expires_in.
C5_Original ==
  \A p \in Procs :
    Persisted(p)
      => /\ last.id \in DOMAIN store
         /\ CacheHoldsTokens(p)
         /\ LET e == log[p].tokenCalls[1]
            IN e.response.expires_in.given
                 => store[last.id].metadata.token_cache.expires_at =
                      IsoTime(e.at + e.response.expires_in.seconds * 1000)

\* C5 (amended): as above, with expires_at = now + expires_in seconds when
\* expires_in is a positive number; when expires_in is missing, zero or
\* negative the persisted cache has no expires_at.
C5_PersistedCache ==
  \A p \in Procs :
    Persisted(p)
      => /\ last.id \in DOMAIN store
         /\ CacheHoldsTokens(p)
         /\ LET e == log[p].tokenCalls[1]
                x == e.response.expires_in
                tc == store[last.id].metadata.token_cache
            IN IF x.given /\ x.seconds > 0
                 THEN tc.expires_at = IsoTime(e.at + x.seconds * 1000)
                 ELSE tc.expires_at = NullTime

\* a refresh that returned no refresh token and a 90 s lifetime was
\* persisted some time after the answer arrived
C5_Witness ==
  \E p \in Procs :
    /\ Persisted(p)
    /\ log[p].tokenCalls[1].call.grant_type = "refresh_token"
    /\ log[p].tokenCalls[1].response.refresh_token = Undef
    /\ log[p].tokenCalls[1].response.expires_in = ExpiresIn(90)
    /\ store[last.id].metadata.token_cache.refresh_token = "rt1"
    /\ now > log[p].tokenCalls[1].at

\* the consent the invocation found lacks auth_code or code_verifier, or
\* there is none
LacksAuthorization(p) ==
  \/ loc[p].consent.consent_id = Null
  \/ loc[p].consent.row.auth_code \in {Undef, Null, ""}
  \/ loc[p].consent.row.code_verifier \in {Undef, Null, ""}

\* C6: preconditions: without a consent record, or with a record that
\* lacks auth_code or code_verifier, the invocation fails before any
\* token-endpoint call, resource call or store write.
C6_Preconditions ==
  \A p \in Procs :
    (pc[p] # "idle" /\ LacksAuthorization(p))
      => /\ pc[p] = "failed"
         /\ log[p].tokenCalls = <<>>
         /\ log[p].resourceTokens = {}
         /\ log[p].writes = <<>>

\* a record with an auth_code and no code_verifier was found and refused
C6_Witness ==
  \E p \in Procs :
    /\ pc[p] = "failed"
    /\ loc[p].consent.consent_id = "c1"
    /\ loc[p].consent.row.auth_code = "abc123"
    /\ loc[p].consent.row.code_verifier = Null

\* ------------------------------------------------ callback reconciliation
\* the consent id the state parameter carries: the first non-empty of the
\* decoded object's consent_id, consentId and ConsentId
CarriedId(st) ==
  IF st.kind # "json" THEN Undef
  ELSE IF st.payload.consent_id \notin {Undef, Null, ""}
    THEN st.payload.consent_id
  ELSE IF st.payload.consentId \notin {Undef, Null, ""}
    THEN st.payload.consentId
  ELSE st.payload.ConsentId

\* a callback handler has just called recordConsentCallback and the table
\* accepted what it was sent
CallbackApplied ==
  /\ last.op = "callback" /\ last.up
  /\ resp.handled

\* C7 as stated: the status written is callback_error if the error
\* parameter is present, otherwise authorization_code_received if a code
\* is present, otherwise callback_received ("present": the parameter is in
\* the query, whatever its value).
C7_Original ==
  \A c \in ConsentIds :
    (CallbackApplied /\ CarriedId(resp.args.state) = c)
      => /\ c \in DOMAIN store
         /\ store[c].status =
              IF resp.args.error # Undef THEN "callback_error"
              ELSE IF resp.args.code # Undef
                THEN "authorization_code_received"
              ELSE "callback_received"

\* C7 (amended): the status written is callback_error if the error
\* parameter is present and not empty (also when a code is present),
\* otherwise authorization_code_received if a code is present and not
\* empty, otherwise callback_received.
C7_CallbackStatus ==
  \A c \in ConsentIds :
    (CallbackApplied /\ CarriedId(resp.args.state) = c)
      => /\ c \in DOMAIN store
         /\ store[c].status =
              IF resp.args.error \notin {Undef, ""} THEN "callback_error"
              ELSE IF resp.args.code \notin {Undef, ""}
                THEN "authorization_code_received"
              ELSE "callback_received"

\* a callback with both an error and a code was recorded as callback_error
C7_Witness ==
  /\ CallbackApplied
  /\ resp.args.error = "access_denied"
  /\ resp.args.code = "abc123"
  /\ CarriedId(resp.args.state) = "c1"
  /\ store["c1"].status = "callback_error"

\* C8 as stated: a callback whose state is absent, is not decodable as
\* base64 JSON, or decodes to an object with neither consent_id nor
\* consentId leaves the table as it was.
C8_Original ==
  [][(/\ nCallbacks' # nCallbacks
      /\ \/ resp'.args.state.kind # "json"
         \/ /\ resp'.args.state.payload.consent_id = Undef
            /\ resp'.args.state.payload.consentId = Undef)
       => store' = store]_vars

\* C8 (amended): ... or decodes to an object with none of consent_id,
\* consentId and ConsentId leaves the table as it was.
C8_NoIdNoWrite ==
  [][(/\ nCallbacks' # nCallbacks
      /\ \/ resp'.args.state.kind # "json"
         \/ /\ resp'.args.state.payload.consent_id = Undef
            /\ resp'.args.state.payload.consentId = Undef
            /\ resp'.args.state.payload.ConsentId = Undef)
       => store' = store]_vars

\* a callback with a code and an undecodable state was handled, with a
\* working table holding a record, and was not recorded
C8_Witness ==
  /\ last.op = "callback" /\ last.up /\ ~last.ok
  /\ resp.handled
  /\ resp.args.state = StateGarbage
  /\ resp.args.code = "abc123"
  /\ DOMAIN store # {}

\* C9: the persisted flag a callback handler reports is true only if the
\* callback was upserted into the Consent Store.
C9_PersistedFlag ==
  (resp.handled /\ resp.persisted) => resp.returned

\* C10: a callback with a code, no error and a state that decodes to
\* {code_verifier, consent_id: c} sets record c's auth_code to the code and
\* its status to authorization_code_received (the table accepting the
\* write).
C10_CodeRecorded ==
  \A c \in ConsentIds :
    (/\ CallbackApplied
     /\ resp.args.state = StateOf(c)
     /\ resp.args.code \notin {Undef, ""}
     /\ resp.args.error \in {Undef, ""})
      => /\ c \in DOMAIN store
         /\ store[c].auth_code = resp.args.code
         /\ store[c].status = "authorization_code_received"

\* the callback of the scenario, for a record that creation had written
C10_Witness ==
  /\ CallbackApplied
  /\ resp.args.state = StateOf("c1")
  /\ resp.args.code = "abc123"
  /\ resp.args.error = Undef
  /\ store["c1"].auth_code = "abc123"
  /\ store["c1"].code_verifier = "v1"
  /\ store["c1"].status = "authorization_code_received"

\* ----------------------------------------------------------- store writes
\* an upsert (creation or callback write) has just been made
UpsertStep ==
  nCreations' # nCreations \/ nCallbacks' # nCallbacks

\* C11: upsert is idempotent and keyed by consent_id: when the table
\* receives for a consent_id the record it has just received for it, the
\* table keeps the rows it had (still one row for that consent_id) and no
\* column other than updated_at changes.
C11_UpsertIdempotent ==
  [][(UpsertStep /\ last'.repeat)
       => /\ DOMAIN store' = DOMAIN store
          /\ \A c \in DOMAIN store :
               \A f \in Fields \ {"updated_at"} : store'[c][f] = store[c][f]]_vars

\* the creation record of c1 was upserted twice, the second time later
\* than the first
C11_Witness ==
  /\ last.repeat
  /\ last.op = "creation"
  /\ last.id = "c1"
  /\ last.sent.vals.status = "redirect_ready"
  /\ DOMAIN store = {"c1"}
  /\ store["c1"].status = "redirect_ready"
  /\ store["c1"].updated_at = IsoTime(TickMs)

\* a token-cache write (updateConsentMetadata) has just been made
PersistStep ==
  \E p \in Procs : pc[p] = "persist" /\ pc'[p] = "resource"

\* the columns that carry an argument of the caller, for each writer
ArgColumns(op) ==
  IF op = "creation"
    THEN {"consent_type", "redirect_url", "code_verifier", "bank_label",
          "metadata"}
  ELSE IF op = "mcp"
    THEN {"consent_type", "redirect_url", "code_verifier", "metadata"}
  ELSE IF op = "callback" THEN {"auth_code", "issuer"}
  ELSE IF op = "persist" THEN {"metadata"}
  ELSE {}

\* C12: every lifecycle write is a partial merge: a write by
\* recordConsentCreation, recordConsentCreationFromMcp,
\* recordConsentCallback or updateConsentMetadata leaves, in the record it
\* addresses, every column for which the caller passed no value as it was.
C12_PartialMerge ==
  [][\A c \in DOMAIN store :
       ((UpsertStep \/ PersistStep) /\ last'.up /\ last'.id = c)
         => \A f \in ArgColumns(last'.op) \ last'.given :
              store'[c][f] = store[c][f]]_vars

\* C13 as stated: the stored code_verifier is the verifier generated when
\* the consent was created, and no record that holds an auth_code lacks a
\* code_verifier.
C13_Original ==
  \A c \in DOMAIN store :
    /\ store[c].code_verifier # Null => store[c].code_verifier = VerifierOf(c)
    /\ store[c].auth_code # Null => store[c].code_verifier # Null

\* C13 (amended): code_verifier is written only by the creation write: a
\* stored creation write that carries the verifier sets code_verifier to
\* the verifier generated for the consent, no creation, callback or
\* token-cache write changes or clears a stored code_verifier, and no
\* other value is ever stored in the column.
C13_VerifierSetOnce ==
  [][\A c \in DOMAIN store' :
       /\ store'[c].code_verifier \in {Null, VerifierOf(c)}
       /\ (c \in DOMAIN store /\ store[c].code_verifier # Null)
            => store'[c].code_verifier = store[c].code_verifier
       /\ (/\ UpsertStep
           /\ last'.op \in {"creation", "mcp"} /\ last'.ok /\ last'.id = c
           /\ "code_verifier" \in last'.given)
            => store'[c].code_verifier = VerifierOf(c)
       /\ (c \notin DOMAIN store /\ last'.op \notin {"creation", "mcp"})
            => store'[c].code_verifier = Null]_vars

\* a record written at creation went through a callback and a token-cache
\* write and still holds the verifier of its creation
C13_Witness ==
  /\ last.op = "persist" /\ last.up /\ last.id = "c1"
  /\ store["c1"].source = "starter-kit"
  /\ store["c1"].auth_code = "abc123"
  /\ store["c1"].metadata.token_cache.present
  /\ store["c1"].code_verifier = "v1"

\* C14: duplicate or out-of-order callbacks: once a record holds an
\* auth_code and an issuer received by a callback, a later callback for the
\* same consent that carries no code leaves the stored auth_code as it
\* was, and one that carries no iss leaves the stored issuer as it was.
C14_LaterCallbackKeepsCode ==
  [][\A c \in DOMAIN store :
       (/\ nCallbacks' # nCallbacks
        /\ last'.op = "callback" /\ last'.up /\ last'.id = c
        /\ store[c].callback_received_at # NullTime
        /\ store[c].auth_code \notin {Null, ""} /\ store[c].issuer # Null)
         => /\ "auth_code" \notin last'.given
                 => store'[c].auth_code = store[c].auth_code
            /\ "issuer" \notin last'.given
                 => store'[c].issuer = store[c].issuer]_vars

\* the columns a callback writes its result to
CallbackColumns == {"auth_code", "issuer", "status", "callback_received_at"}

\* C15: concurrent writers on one consent: a token-cache write that lands
\* on a record leaves the columns written by callbacks (auth_code, issuer,
\* status, callback_received_at) as they were and stores the token cache;
\* a callback write that lands on a record leaves its metadata (with the
\* token cache) as it was and stores the callback's fields.  Whatever the
\* order of the two writes, the record holds both.
C15_ConcurrentWriters ==
  [][\A c \in DOMAIN store :
       /\ (PersistStep /\ last'.op = "persist" /\ last'.up /\ last'.id = c)
            => /\ \A f \in CallbackColumns : store'[c][f] = store[c][f]
               /\ \E p \in Procs :
                    /\ last'.by = p
                    /\ store'[c].metadata.token_cache = loc[p].next.token_cache
                    /\ store'[c].metadata.token_cache.access_token
                         = loc[p].accessToken
       /\ (/\ nCallbacks' # nCallbacks
           /\ last'.op = "callback" /\ last'.up /\ last'.id = c)
            => /\ store'[c].metadata = store[c].metadata
               /\ store'[c].auth_code = Coalesce(resp'.args.code, Null)
               /\ store'[c].issuer = Coalesce(resp'.args.issuer, Null)
               /\ store'[c].status
                    = callbackStatus(resp'.args.code, resp'.args.error)
               /\ store'[c].callback_received_at = IsoTime(now)]_vars

\* a callback arrived while an invocation was between reading the record
\* and writing the token cache, and the record holds both results
C15_Witness ==
  \E p \in Procs :
    /\ last.op = "persist" /\ last.up /\ last.by = p /\ last.id = "c1"
    /\ pc[p] = "resource"
    /\ store["c1"].callback_received_at = IsoTime(log[p].checkedAt + TickMs)
    /\ store["c1"].auth_code = "abc123"
    /\ store["c1"].status = "authorization_code_received"
    /\ store["c1"].metadata.token_cache.present
    /\ store["c1"].metadata.token_cache.access_token = loc[p].accessToken

\* the last operation was a call of recordConsentCreation or of
\* recordConsentCallback, made while the store was disabled or answered by
\* the table with an error
WriteFailed ==
  /\ last.op \in {"creation", "callback"}
  /\ ~last.up

\* C16 as stated: with the store disabled or the upsert failing,
\* recordConsentCreation and recordConsentCallback return false and the
\* callback handler answers 400 when the error parameter is present (in
\* the query, whatever its value) and 200 otherwise.
C16_Original ==
  WriteFailed
    => /\ ~last.ok
       /\ (last.op = "callback" /\ resp.handled)
            => /\ ~resp.returned
               /\ resp.httpStatus =
                    IF resp.args.error # Undef THEN 400 ELSE 200

\* C16 (amended): ... the callback handler answers 400 when the error
\* parameter is present and not empty, and 200 otherwise.
C16_SoftFailure ==
  WriteFailed
    => /\ ~last.ok
       /\ (last.op = "callback" /\ resp.handled)
            => /\ ~resp.returned
               /\ resp.httpStatus =
                    IF resp.args.error \notin {Undef, ""} THEN 400 ELSE 200

\* the table answered the upsert of an error callback for c1 with an
\* error: recordConsentCallback returned false and the handler answered 400
C16_Witness ==
  /\ WriteFailed
  /\ enabled
  /\ last.op = "callback" /\ last.id = "c1"
  /\ resp.handled /\ ~resp.returned
  /\ resp.args.error = "access_denied"
  /\ resp.httpStatus = 400

\* --------------------------------------------------------------------- C17
\* what the amount rule asks of a request-body member: a string made of an
\* integer part without a leading zero (or the single digit 0), a dot and
\* exactly two digits, denoting a value above zero
WellFormedAmount(v) ==
  /\ v.type = "string"
  /\ LET n == Len(v.chars)
         k == n - 3
     IN /\ k >= 1
        /\ v.chars[k + 1] = "."
        /\ \A i \in (1..k) \cup {n - 1, n} : v.chars[i] \in DigitChars
        /\ k = 1 \/ v.chars[1] # "0"
        /\ \E i \in (1..k) \cup {n - 1, n} : v.chars[i] # "0"

\* C17: the single-payment and variable-on-demand handlers go past the
\* validation only with a well-formed amount above zero; every other
\* input is answered 400 with no call to encryptPII, JWTSign,
\* CreateClientAssertion or the PAR endpoint, and no consent id generated.
C17_AmountValidated ==
  h.route \in PaymentRoutes =>
    /\ h.did # <<>> => WellFormedAmount(h.body.amount)
    /\ ~WellFormedAmount(h.body.amount) =>
         /\ h.at = "responded"
         /\ h.reply.sent
         /\ h.reply.status = 400
         /\ h.reply.body \in {"Invalid payment_amount",
                               "Invalid max_payment_amount"}
         /\ h.did = <<>>
         /\ h.consentId = Null
         /\ h.codeVerifier = Null
         /\ h.answer = NoAnswer

\* "0.00" matches the pattern and is answered 400 for its value
C17_Witness ==
  /\ h.route \in PaymentRoutes
  /\ h.body.amount = StringValue(<<"0", ".", "0", "0">>)
  /\ h.reply.sent
  /\ h.reply.status = 400
  /\ h.did = <<>>

\* --------------------------------------------------------------------- C18
\* what the data-sharing rule asks of a request body: a non-empty array of
\* allow-listed permissions and, when valid_from and valid_until are both
\* dates, valid_from the earlier instant (both are midnight UTC on
\* 1 January, so the years decide)
AcceptableBankData(body) ==
  /\ body.data_permissions.isArray
  /\ body.data_permissions.items # <<>>
  /\ \A i \in 1..Len(body.data_permissions.items) :
       body.data_permissions.items[i] \in allowedPermissions
  /\ (body.valid_from.kind = "date" /\ body.valid_until.kind = "date")
       => body.valid_from.year < body.valid_until.year

\* C18: the data-sharing handler issues a PAR request only for an
\* acceptable body; any other body is answered 400 with no call made.
C18_BankDataValidated ==
  h.route = "bank-data" =>
    /\ (\E i \in 1..Len(h.did) : h.did[i] = "PAR")
         => AcceptableBankData(h.body)
    /\ ~AcceptableBankData(h.body) =>
         /\ h.at = "responded"
         /\ h.reply.sent
         /\ h.reply.status = 400
         /\ h.did = <<>>
         /\ h.answer = NoAnswer

\* --------------------------------------------------------------------- C19
\* C19: once a handler has answered a successful PAR response with
\* {redirect, consent_id, code_verifier}, the enabled store holds a record
\* for that consent id with status redirect_ready and the code verifier.
C19_RecordWritten ==
  (h.reply.sent /\ h.reply.consent_id # Null /\ enabled) =>
    /\ h.reply.redirect # Null
    /\ h.reply.code_verifier = h.codeVerifier
    /\ h.reply.consent_id \in DOMAIN store
    /\ store[h.reply.consent_id].status = "redirect_ready"
    /\ store[h.reply.consent_id].code_verifier = h.reply.code_verifier

\* --------------------------------------------------------------------- C20
\* C20 as stated: after a non-2xx answer of the PAR endpoint the handler
\* answers with the upstream status and the upstream body, without a
\* redirect, and no record is written.
C20_Original ==
  (h.answer.kind = "rejected" /\ h.reply.sent) =>
    /\ h.reply.status = h.answer.status
    /\ h.reply.body = h.answer.data
    /\ h.reply.redirect = Null
    /\ h.consentId \notin DOMAIN store

\* C20, amended: after a non-2xx answer of the PAR endpoint the handler
\* answers with the upstream status and, when the upstream body is not
\* empty, the upstream body, otherwise an object holding the error's
\* message; it returns no redirect, consent id or code verifier, and no
\* record is written.
C20_UpstreamFailure ==
  (h.answer.kind = "rejected" /\ h.reply.sent) =>
    /\ h.reply.status = h.answer.status
    /\ h.answer.data \notin {"", Null} => h.reply.body = h.answer.data
    /\ h.answer.data \in {"", Null} => h.reply.body = "error.message"
    /\ h.reply.redirect = Null
    /\ h.reply.consent_id = Null
    /\ h.reply.code_verifier = Null
    /\ h.consentId \notin DOMAIN store

\* the PAR endpoint answered 400 invalid_request and the handler passed
\* it on
C20_Witness ==
  /\ h.answer.kind = "rejected"
  /\ h.answer.status = 400
  /\ h.answer.data = "invalid_request"
  /\ h.reply.sent
  /\ h.reply.status = 400
  /\ h.reply.body = "invalid_request"

\* --------------------------------------------------------------------- C21
\* the table operation of this step added a consent id
IdAdded == DOMAIN store' # DOMAIN store

\* C21 as stated: the set of consent ids changes only by a creation write
\* adding an id; a callback or a metadata update for an id without a
\* record creates none, and no record is removed.
C21_Original ==
  [][/\ DOMAIN store \subseteq DOMAIN store'
     /\ IdAdded => /\ last'.op \in {"creation", "mcp"}
                   /\ DOMAIN store' = DOMAIN store \cup {last'.id}]_vars

\* C21, amended: the set of consent ids changes only by a creation write
\* or a callback's upsert adding the id it addressed; a metadata update
\* for an id without a record creates none, and no record is removed.
C21_IdsOnlyAdded ==
  [][/\ DOMAIN store \subseteq DOMAIN store'
     /\ IdAdded => /\ last'.op \in {"creation", "mcp", "callback"}
                   /\ last'.ok
                   /\ DOMAIN store' = DOMAIN store \cup {last'.id}]_vars

\* the table answered a metadata update for a consent id it has no row of
C21_Witness ==
  /\ last.op = "persist"
  /\ last.up
  /\ last.id \notin DOMAIN store

\* --------------------------------------------------------------------- C22
\* C22: the state a handler built from {code_verifier, consent_id}
\* decodes in recordConsentCallback to exactly that pair, and the consent
\* id the callback is reconciled to is the one the state was built for.
C22_StateRoundTrip ==
  h.at = "decoded" =>
    /\ h.statePayload.ok
    /\ memberOf(h.statePayload, consent_id_key)
         = [given |-> TRUE, text |-> h.stateData.consent_id]
    /\ memberOf(h.statePayload, code_verifier_key)
         = [given |-> TRUE, text |-> h.stateData.code_verifier]
    /\ Len(h.statePayload.members) = 2
    /\ consentIdText(h.statePayload).text = h.stateData.consent_id

\* a state whose text ends in "=": its JSON is not a whole number of
\* three-byte groups
C22_Witness ==
  /\ h.at = "decoded"
  /\ h.stateText # <<>>
  /\ h.stateText[Len(h.stateText)] = 61
  /\ h.statePayload.ok
  /\ Len(h.stateData.consent_id) = MaxIdLen

\* --------------------------------------------------------------------- C23
\* C23: every request sent to the PAR endpoint or the token endpoint
\* carries a client assertion that CreateClientAssertion issued, and no
\* two requests carry the same assertion.
C23_FreshAssertion ==
  /\ \A i \in 1..Len(ca.carried) :
       ca.carried[i].client_assertion \in 1..ca.issued
  /\ \A i, j \in 1..Len(ca.carried) :
       i # j => ca.carried[i].client_assertion # ca.carried[j].client_assertion
  /\ (\E k \in 1..Len(h.did) : h.did[k] = "PAR")
       => \E i \in 1..Len(ca.carried) : ca.carried[i].to = "PAR"
  /\ \A p \in Procs :
       (\E k \in 1..Len(log[p].tokenCalls) : log[p].tokenCalls[k].ok)
         => \E i \in 1..Len(ca.carried) : ca.carried[i].to = "token"

\* a PAR request and a token request have both been sent
C23_Witness ==
  /\ Len(ca.carried) = 2
  /\ ca.carried[1].to # ca.carried[2].to

\* --------------------------------------------------------------------- C24
\* the place of a timestamp in a descending order with nulls last
SortKey(tm) == IF tm.k = "iso" THEN tm.ms + 1 ELSE 0

\* row a does not come after row b: by callback_received_at, then by
\* updated_at
NotAfter(a, b) ==
  \/ SortKey(a.callback_received_at) > SortKey(b.callback_received_at)
  \/ /\ SortKey(a.callback_received_at) = SortKey(b.callback_received_at)
     /\ SortKey(a.updated_at) >= SortKey(b.updated_at)

\* `consent` is a right answer of the query over table s
LatestAuthorized(s, consent) ==
  LET authorized == {c \in DOMAIN s : s[c].auth_code # Null}
  IN IF authorized = {} THEN consent = NoConsent
     ELSE /\ consent.consent_id \in authorized
          /\ consent.row = s[consent.consent_id]
          /\ \A d \in authorized : NotAfter(consent.row, s[d])

\* C24: the consent an invocation of fetchDashboardData gets from
\* fetchLatestAuthorizedConsent is none when no record has an auth_code,
\* and otherwise a record with an auth_code that no other such record
\* precedes by callback_received_at (nulls last), then by updated_at.
C24_LatestAuthorized ==
  [][\A p \in Procs :
       (pc[p] = "idle" /\ log'[p].outcome \in {"loaded", "no_consent"})
         => LatestAuthorized(store, loc'[p].consent)]_vars

\* the query answered with the record whose updated_at is the later one,
\* of two authorized records with the same callback_received_at
C24_Witness ==
  \E p \in Procs, d \in DOMAIN store :
    /\ log[p].outcome \in {"loaded", "no_consent"}
    /\ loc[p].consent.consent_id \in DOMAIN store \ {d}
    /\ loc[p].consent.row = store[loc[p].consent.consent_id]
    /\ store[d].auth_code # Null
    /\ store[d].callback_received_at = loc[p].consent.row.callback_received_at
    /\ SortKey(store[d].updated_at) < SortKey(loc[p].consent.row.updated_at)

\* --------------------------------------------------------------------- C25
\* the request a callback handler has just served carried none of code,
\* state and error
BareRequest(r) ==
  /\ r.args.code = Undef
  /\ r.args.state.kind = "absent"
  /\ r.args.error = Undef

\* C25: a GET on the callback path with none of code, state and error in
\* its query is not handled as a redirect, by the Express route or by the
\* listener: recordConsentCallback is not called and nothing is written.
C25_CallbackGuard ==
  [][(nCallbacks' # nCallbacks /\ BareRequest(resp'))
       => (~resp'.handled /\ UNCHANGED <<store, last>>)]_vars

\* --------------------------------------------------------------------- C26
\* C26: when encryptPII fails in a single-payment or variable-on-demand
\* consent creation, the call ends there: JWTSign is not called, no PAR
\* request is sent, no consent id is generated and nothing is answered.
C26_EncryptionFatal ==
  h.pii = "failed"
    => /\ h.route \in PaymentRoutes
       /\ h.did = <<"encryptPII">>
       /\ h.consentId = Null /\ h.codeVerifier = Null
       /\ ~h.reply.sent

\* a payment request whose PII could not be encrypted
C26_Witness ==
  /\ h.pii = "failed"
  /\ h.at = "crashed"
  /\ h.route = "variable-on-demand-payments"
  /\ ~invalidAmount(h.body.amount)

\* --------------------------------------------------------------------- C27
\* the token requests, in order, that submitted an authorization code
CodeSubmissions ==
  {i \in 1..Len(ca.carried) :
     /\ ca.carried[i].to = "token"
     /\ ca.carried[i].data.grant_type = "authorization_code"}

\* the record holds a refresh token the next invocation will use
HoldsRefreshToken(row) ==
  /\ row.metadata.kind = "obj"
  /\ row.metadata.token_cache.present
  /\ row.metadata.token_cache.refresh_token \notin {Undef, Null, ""}

\* the record holds an access token that is good for more than 60 seconds
\* at time `clock`
HoldsUsableToken(row, clock) ==
  /\ row.metadata.kind = "obj"
  /\ row.metadata.token_cache.present
  /\ row.metadata.token_cache.access_token \notin {Undef, Null, ""}
  /\ row.metadata.token_cache.expires_at.k = "iso"
  /\ row.metadata.token_cache.expires_at.ms > clock + 60000

\* C27 as stated: over the invocations of fetchDashboardData for one
\* authorized consent, the stored authorization code is submitted to the
\* token endpoint at most once.
C27_Original ==
  \A i, j \in CodeSubmissions :
    ca.carried[i].data.code = ca.carried[j].data.code => i = j

\* C27, amended: an invocation submits the stored authorization code at
\* most once, and only when the record it loaded holds neither a usable
\* access token nor a refresh token; an invocation that loaded a refresh
\* token submits that and not the code.
C27_CodeOnlyWithoutCache ==
  [][\A p \in Procs :
       Len(log'[p].tokenCalls) > Len(log[p].tokenCalls)
         => LET call == log'[p].tokenCalls[Len(log'[p].tokenCalls)].call
                row == loc[p].consent.row
            IN /\ Len(log[p].tokenCalls) = 0
               /\ ~HoldsUsableToken(row, log[p].checkedAt)
               /\ call.grant_type = "authorization_code"
                    <=> ~HoldsRefreshToken(row)
               /\ call.grant_type = "authorization_code"
                    => /\ call.code = row.auth_code
                       /\ call.code_verifier = row.code_verifier
               /\ call.grant_type \in {"authorization_code", "refresh_token"}]_vars

\* the code was exchanged, the answer held no refresh token and the cache
\* was stored; a later invocation found the access token expired and
\* submitted the code again
C27_Witness ==
  \E i, j \in CodeSubmissions, c \in DOMAIN store :
    /\ i < j
    /\ ca.carried[i].data.code = ca.carried[j].data.code
    /\ store[c].auth_code = ca.carried[j].data.code
    /\ store[c].metadata.token_cache.present
    /\ store[c].metadata.token_cache.access_token \in AccessTokens
    /\ store[c].metadata.token_cache.obtained_at.ms < now
    /\ ~HoldsRefreshToken(store[c])

\* --------------------------------------------------------------------- C28
\* invocation p sends a token request in this step
TokenCallBy(p) == Len(log'[p].tokenCalls) > Len(log[p].tokenCalls)

\* invocation p has its metadata stored in this step
StoredBy(p) ==
  /\ pc[p] = "persist" /\ pc'[p] = "resource"
  /\ log'[p].writes[Len(log'[p].writes)].ok
  /\ loc[p].consent.consent_id \in DOMAIN store

\* the keys of a metadata column
KeysOf(m) ==
  IF m.kind # "obj" THEN {}
  ELSE {k \in {"base_url"} : m.base_url # Undef}
       \cup {k \in {"token_cache"} : m.token_cache.present}

\* C28 as stated: of two invocations that overlap while the cached token
\* is not usable only one sends the token request for that cache, and a
\* stored write keeps every metadata key the record had when it was made.
C28_Original ==
  [][\A p \in Invocations :
       /\ TokenCallBy(p)
            => \A q \in Invocations \ {p} :
                 (pc[q] \in {"persist", "resource"} /\ log[q].tokenCalls # <<>>)
                   => log[q].tokenCalls[1].call
                        # log'[p].tokenCalls[Len(log'[p].tokenCalls)].call
       /\ StoredBy(p)
            => KeysOf(store[loc[p].consent.consent_id].metadata)
                 \subseteq KeysOf(store'[loc[p].consent.consent_id].metadata)]_vars

\* C28, amended: each of two overlapping invocations sends one token
\* request of its own for the cache it loaded, and a stored write holds
\* the new token_cache and every metadata key of the record as the
\* writing invocation loaded it.
C28_OneCallEach ==
  [][\A p \in Invocations :
       /\ Len(log'[p].tokenCalls) <= 1
       /\ TokenCallBy(p)
            => /\ ~HoldsUsableToken(loc[p].consent.row, log[p].checkedAt)
               /\ LET call == log'[p].tokenCalls[1].call
                  IN IF HoldsRefreshToken(loc[p].consent.row)
                       THEN call.refresh_token =
                              loc[p].consent.row.metadata.token_cache.refresh_token
                       ELSE call.code = loc[p].consent.row.auth_code
       /\ StoredBy(p)
            => LET written == store'[loc[p].consent.consent_id].metadata
               IN /\ KeysOf(loc[p].consent.row.metadata) \cup {"token_cache"}
                       \subseteq KeysOf(written)
                  /\ written.token_cache.access_token = loc[p].accessToken
                  /\ loc[p].consent.row.metadata.kind = "obj"
                       => written.base_url
                            = loc[p].consent.row.metadata.base_url]_vars

\* two invocations loaded the same record, sent the same grant to the
\* token endpoint and both had their cache stored
C28_Witness ==
  \E p, q \in Invocations :
    /\ p # q
    /\ pc[p] = "resource" /\ pc[q] = "resource"
    /\ loc[p].consent = loc[q].consent
    /\ Len(log[p].tokenCalls) = 1 /\ Len(log[q].tokenCalls) = 1
    /\ log[p].tokenCalls[1].call = log[q].tokenCalls[1].call
    /\ log[p].tokenCalls[1].call.grant_type = "refresh_token"
    /\ Len(log[p].writes) = 1 /\ log[p].writes[1].ok
    /\ Len(log[q].writes) = 1 /\ log[q].writes[1].ok

\* --------------------------------------------------------------------- C29
\* C29: a token-cache write that failed after a successful refresh or
\* exchange is written again, or the caller of fetchDashboardData is told:
\* the call throws or what it returns carries a warning.
C29_WriteFailureSurfaced ==
  \A p \in Procs :
    \A i \in 1..Len(log[p].writes) :
      (pc[p] = "done" /\ ~log[p].writes[i].ok)
        => \/ \E j \in (i + 1)..Len(log[p].writes) : log[p].writes[j].ok
           \/ "warning" \in DashboardData

\* --------------------------------------------------------------------- C30
\* the statuses a callback writes
CallbackStatuses ==
  {"callback_received", "authorization_code_received", "callback_error"}

C31_FixedCapacity ==
  /\ Len(records) <= 50
  /\ Len(records) = IF debug.calls < 50 THEN debug.calls ELSE 50

\* more calls were made than the buffer has room for
C31_Witness == debug.calls > 50 /\ Len(records) = 50

\* --------------------------------------------------------------------- C32
\* C32: the buffer lists the records of the most recent calls, the newest
\* first, so the record dropped from a full buffer is the oldest one;
\* getLatestAuthCodeRecord answers the record of the last call, null when
\* there was none, and getAuthCodeRecords the list in that order.
C32_NewestFirst ==
  /\ \A i \in 1..Len(records) : records[i].call = debug.calls - i + 1
  /\ debug.route = "latest"
       => /\ debug.record.isNull <=> debug.calls = 0
          /\ debug.record.call = debug.calls
          /\ debug.httpStatus = IF debug.calls = 0 THEN 404 ELSE 200
  /\ debug.route = "list"
       => /\ Len(debug.entries) = Len(records)
          /\ \A i \in 1..Len(debug.entries) :
               debug.entries[i].call = debug.calls - i + 1

\* the latest record is asked for after the oldest ones were dropped
C32_Witness ==
  /\ debug.route = "latest"
  /\ debug.calls > 50
  /\ debug.record.call = debug.calls
  /\ records[Len(records)].call = debug.calls - 49

\* --------------------------------------------------------------------- C33
\* the transports that are registered and not closed
OpenTransports(life) ==
  {s \in SessionIds : life[s] \in {"connecting", "connected"}}

\* C33: the session map holds exactly the sessions whose transport is
\* registered and not closed, and a POST is handed to a transport only
\* when its sessionId is in the map: 400 without a sessionId, 404 for one
\* that is unknown or closed.
C33_SessionMap ==
  [][/\ sessions' = OpenTransports(sse'.life)
     /\ sse'.posts # sse.posts
          => LET post == sse'.post
             IN /\ post.httpStatus = 400 <=> post.sessionId.kind # "id"
                /\ post.httpStatus = 404
                     <=> /\ post.sessionId.kind = "id"
                         /\ post.sessionId.id \notin OpenTransports(sse.life)
                /\ post.to # 0
                     <=> /\ post.sessionId.kind = "id"
                         /\ post.sessionId.id \in OpenTransports(sse.life)
                /\ post.to # 0 => post.to = post.sessionId.id]_vars

\* a POST for a session whose server.connect failed is answered 404 while
\* another session is open
C33_Witness ==
  /\ sse.post.httpStatus = 404
  /\ sse.post.sessionId.id \in SessionIds
  /\ sse.life[sse.post.sessionId.id] = "failed"
  /\ sessions # {}

\* --------------------------------------------------------------------- C34
\* C34: the polling step submits the authorization code it finds only
\* when no exchange is in flight and none has failed, however often the
\* effect is run again, and sends no further GET once tokenStatus is
\* success.
C34_SingleExchange ==
  [][/\ wz'.submitted > wz.submitted
          => (wz.exchanges = {} /\ wz.failed = 0)
     /\ wz.tokenStatus = "success" => wz'.polls = wz.polls]_vars

\* --------------------------------------------------------------------- C35
\* C35: the step stays within 0..3 and never goes down: a call of
\* advanceTo(target) leaves it at min(max(target, step), 3).
C35_StepMonotonic ==
  [][/\ wz'.step \in 0..3
     /\ wz'.step >= wz.step
     /\ wz'.advances # wz.advances
          => LET Greatest(S) == CHOOSE m \in S : \A n \in S : m >= n
                 Least(S) == CHOOSE m \in S : \A n \in S : m <= n
             IN wz'.step = Least({Greatest({wz'.target, wz.step}), 3})
     /\ wz'.advances = wz.advances => wz'.step = wz.step]_vars

\* advanceTo was called with a target below the step the wizard is at
C35_Witness ==
  /\ wz.advances > 0
  /\ wz.target \in 0..2
  /\ wz.target < wz.step

\* --------------------------------------------------------------------- C36
\* C36: after the first SIGINT or SIGTERM the process exits in the end,
\* with code 0 when the server closed without an error and with code 1
\* on a close error or when the timer fired first, and the signals it
\* receives set one timer and call server.close once.
C36_ShutdownOnce ==
  /\ [](/\ sd.closes <= 1
        /\ sd.timeouts <= 1
        /\ sd.closes = (IF sd.shuttingDown THEN 1 ELSE 0)
        /\ sd.timeouts = sd.closes
        /\ sd.exit = {0} => sd.close = "closed"
        /\ sd.exit = {1} => (sd.close = "error" \/ sd.timeout = "fired")
        /\ sd.exit \in {NotExited, {0}, {1}})
  /\ (sd.shuttingDown ~> sd.exit \in {{0}, {1}})

\* the process has exited with code 1 through the timer after three
\* signals, with a connection still open
C36_Witness ==
  /\ sd.signals = 3
  /\ sd.exit = {1}
  /\ sd.timeout = "fired"
  /\ sd.close = "pending"
  /\ sd.connections > 0

====
